---- MODULE Spec2Model ----
(***************************************************************************)
(* Model of the file validators of movement/validators/files.py.           *)
(*                                                                         *)
(* Each attrs class is constructed in two phases: the generated __init__   *)
(* assigns every field (running its converter), then runs the validators   *)
(* of the fields in declaration order.  The validators of one field are    *)
(* chained by and_: field(validator=...) first, then every method          *)
(* decorated with @<field>.validator in the order it is declared.  The     *)
(* first validator that raises ends the construction.                      *)
(*                                                                         *)
(* One action models one validator of the chain; pc names the validator    *)
(* that runs next, ran lists the validators that have run.                 *)
(*                                                                         *)
(* The module also models examples/filter_boolean.py, the plotting         *)
(* functions of movement/utils/plotting.py and the conversion of           *)
(* movement/napari/_reader.py, each with a specification of its own.       *)
(***************************************************************************)
EXTENDS Integers, Sequences, FiniteSets, TLC

(***************************************************************************)
(* Bounds of the model.                                                    *)
(***************************************************************************)
MaxNameLen == 3      \* longest file name (final path component), in characters
MaxSuffixes == 2     \* longest expected_suffix list
MaxExpected == 2     \* longest expected_datasets list
MaxRows == 2         \* most rows of a VIA tracks file, all cells varying
MaxHeaderRows == 1   \* most rows of a VIA tracks file, its header varying
MaxFrameRows == 3    \* most rows, file names and file attributes varying
MaxBoxRows == 2      \* most rows, shape and region attributes varying
MaxTrackRows == 3    \* most rows, file names and track IDs varying
MaxFilenameLen == 5  \* longest file name of a row, all characters varying

VARIABLES
    \* ---- the arguments of the constructor and the world it inspects ----
    cls,                  \* the class that is constructed
    argType,              \* type of the path argument: "str" or "Path"
    name,                 \* final component of the path, a sequence of characters
    kind,                 \* what the path points to: "absent", "file", "dir", "other"
    searchable,           \* the directories on the way to the path can be searched
    readable,             \* os.access(path, os.R_OK)
    parentWritable,       \* os.access(path.parent, os.W_OK)
    expected_permission,  \* a string, as a sequence of characters
    expected_suffix,      \* a list of suffixes (each a sequence of characters)
    h5state,              \* what h5py.File(path, "r") meets at the path
    h5keys,               \* top-level keys of the HDF5 file
    expected_datasets,    \* a list of dataset names
    dlcLines,             \* what the first four readline() calls on the DeepLabCut file return
    viaHeader,            \* first line of the VIA tracks file, as readline() returns it
    viaRows,              \* the other lines of the VIA tracks file, as pandas reads them
    \* ---- the construction ----
    pathType,             \* type of the value held by the path field
    pc,                   \* validator to run next, or "new", "constructed", "raised"
    ran,                  \* validators run so far, in order
    exc,                  \* exception class raised, "none" if none
    msg,                  \* which raise statement raised
    listed,               \* dataset names the error message lists
    h5log,                \* events on HDF5 file handles, in order
    fscalls,              \* calls made on the path that reach the file system, in order
    frames,               \* list_frame_numbers of the VIA frame-number check
    cited,                \* filename and row the error message of a VIA check cites
    \* ---- the other programs: examples, plotting and the napari reader ----
    filt,                 \* examples/filter_boolean.py: the arrays and the bouts
    plot,                 \* utils/plotting.py: the arguments, the crop dict and the axes
    napari                \* napari/_reader.py: the pose tracks and the napari tracks

fileInputs ==
    <<name, kind, searchable, readable, parentWritable, expected_permission, expected_suffix>>
h5Inputs == <<h5state, h5keys, expected_datasets>>
dlcInputs == <<dlcLines>>
viaInputs == <<viaHeader, viaRows>>
inputs == <<cls, argType, fileInputs, h5Inputs, dlcInputs, viaInputs>>
viaOut == <<frames, cited>>
validatorVars == <<inputs, pathType, pc, ran, exc, msg, listed, h5log, fscalls, viaOut>>
others == <<filt, plot, napari>>
vars == <<validatorVars, others>>

(***************************************************************************)
(* Small helpers on sequences.                                             *)
(***************************************************************************)
SeqsUpTo(S, n) == UNION {[1..k -> S] : k \in 0..n}

Range(s) == {s[i] : i \in 1..Len(s)}

\* c in s, for a one-character string c and a string s
Contains(s, c) == \E i \in 1..Len(s) : s[i] = c

\* s.rfind(c): the last index of c in s, counted from 0; -1 if there is none
RFind(s, c) ==
    IF Contains(s, c)
    THEN (CHOOSE i \in 1..Len(s) : s[i] = c /\ \A j \in (i+1)..Len(s) : s[j] # c) - 1
    ELSE -1

IsPrefix(s, t) == Len(s) <= Len(t) /\ \A i \in 1..Len(s) : s[i] = t[i]

(***************************************************************************)
(* Results of one validator: no error, or the exception it raises.         *)
(***************************************************************************)
NoError == [exc |-> "none", msg |-> "none"]
Error(e, m) == [exc |-> e, msg |-> m]

(***************************************************************************)
(* ValidFile: the inputs.                                                  *)
(***************************************************************************)
Chars == {"a", "b", "."}

DOT == <<".">>
DOTDOT == <<".", ".">>

\* File names: non-empty, and not the two directory entries "." and ".."
Names == {n \in SeqsUpTo(Chars, MaxNameLen) : Len(n) >= 1 /\ n # DOT /\ n # DOTDOT}

Kinds == {"absent", "file", "dir", "other"}

ValidPermissions == {<<"r">>, <<"w">>, <<"r", "w">>}
Permissions == ValidPermissions \cup {<<"x">>, <<"w", "r">>}

SuffixPool == {<<".", "a">>, <<".", "b">>}

ArgTypes == {"str", "Path"}

(***************************************************************************)
(* pathlib.Path, as the validators use it.                                 *)
(***************************************************************************)
\* os.stat(path) raises PermissionError (errno 13) when a directory on the way
\* to the path cannot be searched.  Path.is_dir() and Path.exists() call it
\* and turn only the errors of a missing entry into False: this one they let
\* through.
stat_raises(s) == ~s

\* Path.is_dir(), when stat does not raise: the path exists and is a directory
is_dir(k) == k = "dir"

\* Path.exists(), when stat does not raise
exists(k) == k # "absent"

\* Path.suffix: the part of the name from its last dot on, if that dot is
\* neither the first nor the last character of the name
suffix(n) ==
    LET i == RFind(n, ".")
    IN  IF 0 < i /\ i < Len(n) - 1 THEN SubSeq(n, i + 1, Len(n)) ELSE <<>>

\* converter=Path: a str or a Path becomes a Path
ConvertPath(t) == "Path"

\* validators.instance_of(Path)
instance_of_Path(t) ==
    IF t = "Path" THEN NoError ELSE Error("TypeError", "instance_of")

(***************************************************************************)
(* ValidFile: the validators, as functions of what they read.              *)
(***************************************************************************)
path_is_not_dir_Skipped(k, s) == NoError

path_is_not_dir(k, s) ==
    IF stat_raises(s)
    THEN Error("PermissionError", "stat")
    ELSE IF is_dir(k)
    THEN Error("IsADirectoryError", "is_dir")
    ELSE NoError

file_exists_when_expected_ReadOnly(perm, k, s) ==
    IF stat_raises(s)
    THEN Error("PermissionError", "stat")
    ELSE IF perm = <<"r">>
    THEN IF ~exists(k) THEN Error("FileNotFoundError", "not_found") ELSE NoError
    ELSE IF exists(k) THEN Error("FileExistsError", "already_exists") ELSE NoError

file_exists_when_expected(perm, k, s) ==
    IF stat_raises(s)
    THEN Error("PermissionError", "stat")
    ELSE IF Contains(perm, "r")
    THEN IF ~exists(k) THEN Error("FileNotFoundError", "not_found") ELSE NoError
    ELSE IF exists(k) THEN Error("FileExistsError", "already_exists") ELSE NoError

file_has_access_permissions_AnyMode(perm, file_is_readable, parent_is_writeable) ==
    IF ~file_is_readable
    THEN Error("PermissionError", "unreadable")
    ELSE IF ~parent_is_writeable
         THEN Error("PermissionError", "unwritable")
         ELSE NoError

file_has_access_permissions(perm, file_is_readable, parent_is_writeable) ==
    IF Contains(perm, "r") /\ ~file_is_readable
    THEN Error("PermissionError", "unreadable")
    ELSE IF Contains(perm, "w") /\ ~parent_is_writeable
         THEN Error("PermissionError", "unwritable")
         ELSE NoError

file_has_expected_suffix_NoSkip(sfx, n) ==
    IF suffix(n) \notin Range(sfx)
    THEN Error("ValueError", "suffix")
    ELSE NoError

file_has_expected_suffix(sfx, n) ==
    IF sfx # <<>> /\ suffix(n) \notin Range(sfx)
    THEN Error("ValueError", "suffix")
    ELSE NoError

\* validators.in_(["r", "w", "rw"])
permission_in(perm) ==
    IF perm \in ValidPermissions THEN NoError ELSE Error("ValueError", "in_")

(***************************************************************************)
(* The calls a validator makes on the path that reach the file system, as  *)
(* pairs of the function called and the access it asks for: the mode of an *)
(* open, the access os.access tests, "stat" for a query of the file's      *)
(* status.  expected is the expected_datasets of ValidHDF5.                *)
(***************************************************************************)
fs_calls_OpenForAppend(v, expected) ==
    CASE v = "_path_is_not_dir" -> << <<"Path.is_dir", "stat">> >>
      [] v = "_file_exists_when_expected" -> << <<"Path.exists", "stat">> >>
      [] v = "_file_has_access_permissions" ->
             << <<"os.access", "R_OK">>, <<"os.access parent", "W_OK">> >>
      [] v = "_file_is_h5" -> << <<"h5py.File", "a">> >>
      [] v = "_file_contains_expected_datasets" ->
             IF expected # <<>> THEN << <<"h5py.File", "a">> >> ELSE <<>>
      [] v = "_csv_file_contains_expected_levels" -> << <<"open", "r">> >>
      [] v = "csv_file_contains_expected_levels" -> << <<"open", "r">> >>
      [] v = "csv_file_contains_valid_frame_numbers" -> << <<"pd.read_csv", "r">> >>
      [] v = "csv_file_contains_tracked_bboxes" -> << <<"pd.read_csv", "r">> >>
      [] v = "csv_file_contains_unique_track_IDs_per_filename" -> << <<"pd.read_csv", "r">> >>
      [] OTHER -> <<>>

fs_calls(v, expected) ==
    CASE v = "_path_is_not_dir" -> << <<"Path.is_dir", "stat">> >>
      [] v = "_file_exists_when_expected" -> << <<"Path.exists", "stat">> >>
      [] v = "_file_has_access_permissions" ->
             << <<"os.access", "R_OK">>, <<"os.access parent", "W_OK">> >>
      [] v = "_file_is_h5" -> << <<"h5py.File", "r">> >>
      [] v = "_file_contains_expected_datasets" ->
             IF expected # <<>> THEN << <<"h5py.File", "r">> >> ELSE <<>>
      [] v = "_csv_file_contains_expected_levels" -> << <<"open", "r">> >>
      [] v = "csv_file_contains_expected_levels" -> << <<"open", "r">> >>
      [] v = "csv_file_contains_valid_frame_numbers" -> << <<"pd.read_csv", "r">> >>
      [] v = "csv_file_contains_tracked_bboxes" -> << <<"pd.read_csv", "r">> >>
      [] v = "csv_file_contains_unique_track_IDs_per_filename" -> << <<"pd.read_csv", "r">> >>
      [] OTHER -> <<>>

(***************************************************************************)
(* ValidFile: the chain of validators, in the order attrs runs them.       *)
(***************************************************************************)
ValidFileChain_ExistsFirst ==
    << "instance_of", "_file_exists_when_expected", "_path_is_not_dir",
       "_file_has_access_permissions", "_file_has_expected_suffix", "in_" >>

ValidFileChain ==
    << "instance_of", "_path_is_not_dir", "_file_exists_when_expected",
       "_file_has_access_permissions", "_file_has_expected_suffix", "in_" >>

\* The validator after v in chain c, "constructed" after the last one
After(c, v) ==
    LET i == CHOOSE j \in 1..Len(c) : c[j] = v
    IN  IF i < Len(c) THEN c[i + 1] ELSE "constructed"

\* One validator of the chain runs: it raises, or the next one is due
Validate(chain, v, result) ==
    /\ pc = v
    /\ ran' = Append(ran, v)
    /\ fscalls' = fscalls \o fs_calls(v, expected_datasets)
    /\ UNCHANGED others
    /\ exc' = result.exc
    /\ msg' = result.msg
    /\ pc' = IF result.exc # "none" THEN "raised" ELSE After(chain, v)

\* No row of a file is cited
NoRow == [filename |-> <<>>, row |-> -1]

\* Before __init__ runs nothing is assigned, run, raised or opened
NotStarted ==
    /\ pathType = "unset"
    /\ pc = "new"
    /\ ran = <<>>
    /\ exc = "none"
    /\ msg = "none"
    /\ listed = {}
    /\ h5log = <<>>
    /\ fscalls = <<>>
    /\ frames = <<>>
    /\ cited = NoRow

\* The other programs, when it is a validator that is constructed
OthersIdle ==
    /\ filt = [stage |-> "idle"]
    /\ plot = [stage |-> "idle"]
    /\ napari = [stage |-> "idle"]

\* The inputs of the other validators, when it is not them that is constructed
NoFileInputs ==
    /\ name = <<>>
    /\ kind = "absent"
    /\ searchable = FALSE
    /\ readable = FALSE
    /\ parentWritable = FALSE
    /\ expected_permission = <<"r">>
    /\ expected_suffix = <<>>

NoH5Inputs ==
    /\ h5state = "none"
    /\ h5keys = {}
    /\ expected_datasets = <<>>

NoDlcInputs == dlcLines = <<>>

NoViaInputs ==
    /\ viaHeader = <<>>
    /\ viaRows = <<>>

InitFile ==
    /\ cls = "ValidFile"
    /\ argType \in ArgTypes
    /\ name \in Names
    /\ kind \in Kinds
    /\ searchable \in BOOLEAN
    /\ readable \in BOOLEAN
    /\ kind = "absent" => ~readable
    /\ ~searchable => ~readable
    /\ parentWritable \in BOOLEAN
    /\ expected_permission \in Permissions
    /\ expected_suffix \in SeqsUpTo(SuffixPool, MaxSuffixes)
    /\ NoH5Inputs
    /\ NoDlcInputs
    /\ NoViaInputs
    /\ NotStarted
    /\ OthersIdle

\* __init__ assigns the fields; path goes through its converter
FileAssign ==
    /\ pc = "new"
    /\ pathType' = ConvertPath(argType)
    /\ pc' = ValidFileChain[1]
    /\ UNCHANGED <<inputs, ran, exc, msg, listed, h5log, fscalls, viaOut, others>>

FileInstanceOf ==
    /\ Validate(ValidFileChain, "instance_of", instance_of_Path(pathType))
    /\ UNCHANGED <<inputs, pathType, listed, h5log, viaOut>>

PathIsNotDir ==
    /\ Validate(ValidFileChain, "_path_is_not_dir", path_is_not_dir(kind, searchable))
    /\ UNCHANGED <<inputs, pathType, listed, h5log, viaOut>>

FileExistsWhenExpected ==
    /\ Validate(ValidFileChain, "_file_exists_when_expected",
                file_exists_when_expected(expected_permission, kind, searchable))
    /\ UNCHANGED <<inputs, pathType, listed, h5log, viaOut>>

FileHasAccessPermissions ==
    /\ Validate(ValidFileChain, "_file_has_access_permissions",
                file_has_access_permissions(expected_permission, readable, parentWritable))
    /\ UNCHANGED <<inputs, pathType, listed, h5log, viaOut>>

FileHasExpectedSuffix ==
    /\ Validate(ValidFileChain, "_file_has_expected_suffix",
                file_has_expected_suffix(expected_suffix, name))
    /\ UNCHANGED <<inputs, pathType, listed, h5log, viaOut>>

PermissionIn ==
    /\ Validate(ValidFileChain, "in_", permission_in(expected_permission))
    /\ UNCHANGED <<inputs, pathType, listed, h5log, viaOut>>

NextFile ==
    \/ FileAssign
    \/ FileInstanceOf
    \/ PathIsNotDir
    \/ FileExistsWhenExpected
    \/ FileHasAccessPermissions
    \/ FileHasExpectedSuffix
    \/ PermissionIn

SpecFile == InitFile /\ [][NextFile]_vars

\* The construction has ended: it returned or it raised
Done == pc \in {"constructed", "raised"}
Constructed == pc = "constructed"
Raised == pc = "raised"

TypeOKFile ==
    /\ pc \in Range(ValidFileChain) \cup {"new", "constructed", "raised"}
    /\ IsPrefix(ran, ValidFileChain)
    /\ Raised <=> exc # "none"

(***************************************************************************)
(* ValidFile: the claims.                                                  *)
(***************************************************************************)
ValidMode == expected_permission \in ValidPermissions
ModeReads == Contains(expected_permission, "r")
ModeWrites == Contains(expected_permission, "w")
SuffixMismatch == expected_suffix # <<>> /\ suffix(name) \notin Range(expected_suffix)

\* The status of the path can be queried: os.stat(path) does not raise
StatusKnown == searchable

\* C1 as stated: for every path that is a directory the construction of
\* ValidFile ends with IsADirectoryError, whatever the expected permission and
\* the expected suffixes are.
C1_AsStated ==
    (Done /\ kind = "dir") => (exc = "IsADirectoryError" /\ msg = "is_dir")

\* C1, amended: for a path that is a directory whose status can be queried
\* the construction of ValidFile ends with IsADirectoryError, whatever the
\* expected permission and the expected suffixes are; it never returns.  When
\* the status cannot be queried it ends with the PermissionError of the query.
C1_DirectoryRaisesIsADirectoryError ==
    (Done /\ kind = "dir") =>
        IF StatusKnown
        THEN exc = "IsADirectoryError" /\ msg = "is_dir"
        ELSE exc = "PermissionError" /\ msg = "stat"

\* A directory, asked for in write mode with a list of suffixes, was rejected
C1_Witness ==
    /\ Raised
    /\ kind = "dir"
    /\ StatusKnown
    /\ expected_permission = <<"w">>
    /\ expected_suffix # <<>>
    /\ exc = "IsADirectoryError"

\* C2 as stated: for a path that is not a directory and a valid mode, the
\* construction ends with FileNotFoundError exactly when the mode contains "r"
\* and the path does not exist, and with FileExistsError exactly when the mode
\* is "w" and the path exists.
C2_AsStated ==
    (Done /\ kind # "dir" /\ ValidMode) =>
        /\ (exc = "FileNotFoundError") <=> (ModeReads /\ kind = "absent")
        /\ (exc = "FileExistsError") <=> (expected_permission = <<"w">> /\ kind # "absent")

\* C2, amended: for a path that is not a directory, whose status can be
\* queried, and a valid mode, the construction ends with FileNotFoundError
\* exactly when the mode contains "r" and the path does not exist, and with
\* FileExistsError exactly when the mode is "w" and the path exists.  When
\* the status cannot be queried it ends with neither.
C2_ExistenceMatchesMode ==
    (Done /\ kind # "dir" /\ ValidMode) =>
        IF StatusKnown
        THEN /\ (exc = "FileNotFoundError") <=> (ModeReads /\ kind = "absent")
             /\ (exc = "FileExistsError") <=>
                    (expected_permission = <<"w">> /\ kind # "absent")
        ELSE exc \notin {"FileNotFoundError", "FileExistsError"}

\* Mode "rw" on a missing path ended with FileNotFoundError
C2_Witness ==
    /\ Raised
    /\ StatusKnown
    /\ expected_permission = <<"r", "w">>
    /\ kind = "absent"
    /\ exc = "FileNotFoundError"

\* The path passes the directory and existence checks: its status can be
\* queried, it is no directory and its existence is what the mode asks for
PassesDirAndExistence ==
    /\ StatusKnown
    /\ kind # "dir"
    /\ ModeReads => kind # "absent"
    /\ expected_permission = <<"w">> => kind = "absent"

\* C3: for a valid mode and a path that passes the directory and existence
\* checks, the permission check runs, and the construction ends with
\* PermissionError exactly when the mode reads and the file is not readable, or
\* the mode writes and the parent directory is not writable.  Mode "w" asks
\* nothing of the file's readability, mode "r" nothing of the parent's
\* writability.
C3_PermissionMatchesMode ==
    (Done /\ ValidMode /\ PassesDirAndExistence) =>
        /\ "_file_has_access_permissions" \in Range(ran)
        /\ (exc = "PermissionError") <=>
               \/ (ModeReads /\ ~readable)
               \/ (ModeWrites /\ ~parentWritable)
        /\ (msg = "unreadable") <=> (ModeReads /\ ~readable)

\* Mode "r" was accepted for a readable file in a parent that is not writable
C3_Witness ==
    /\ Constructed
    /\ expected_permission = <<"r">>
    /\ readable
    /\ ~parentWritable

\* C4: the suffix check raises ValueError exactly when expected_suffix is not
\* empty and the suffix of the path is not in it: if the check has run, the
\* construction ended in its error exactly in that case; a construction with a
\* valid mode ends with ValueError exactly when the earlier checks pass and
\* the suffix is not among the non-empty expected ones; with an empty
\* expected_suffix the check never raises.
C4_SuffixCheck ==
    Done =>
        /\ ("_file_has_expected_suffix" \in Range(ran)) =>
               ((msg = "suffix") <=> SuffixMismatch)
        /\ (msg = "suffix") => (exc = "ValueError")
        /\ ValidMode =>
               ((exc = "ValueError") <=>
                    /\ PassesDirAndExistence
                    /\ ModeReads => readable
                    /\ ModeWrites => parentWritable
                    /\ SuffixMismatch)
        /\ (expected_suffix = <<>>) => (msg # "suffix")

\* The file a.b was rejected for the expected suffixes [".a"]
C4_Witness ==
    /\ Raised
    /\ name = <<"a", ".", "b">>
    /\ expected_suffix = << <<".", "a">> >>
    /\ exc = "ValueError"
    /\ msg = "suffix"

\* The checks in the order the claim lists them, with the raise statement of
\* the first one the inputs violate ("none" if they violate none)
C5_Order ==
    << "instance_of", "_path_is_not_dir", "_file_exists_when_expected",
       "_file_has_access_permissions", "_file_has_expected_suffix", "in_" >>

C5_FirstViolatedAsStated ==
    IF kind = "dir" THEN "is_dir"
    ELSE IF ModeReads /\ kind = "absent" THEN "not_found"
    ELSE IF ~ModeReads /\ kind # "absent" THEN "already_exists"
    ELSE IF ModeReads /\ ~readable THEN "unreadable"
    ELSE IF ModeWrites /\ ~parentWritable THEN "unwritable"
    ELSE IF SuffixMismatch THEN "suffix"
    ELSE "none"

\* The same, with the query of the path's status as the first thing that
\* can fail
C5_FirstViolated ==
    IF ~StatusKnown THEN "stat"
    ELSE IF kind = "dir" THEN "is_dir"
    ELSE IF ModeReads /\ kind = "absent" THEN "not_found"
    ELSE IF ~ModeReads /\ kind # "absent" THEN "already_exists"
    ELSE IF ModeReads /\ ~readable THEN "unreadable"
    ELSE IF ModeWrites /\ ~parentWritable THEN "unwritable"
    ELSE IF SuffixMismatch THEN "suffix"
    ELSE "none"

C5_CheckOf(m) ==
    CASE m \in {"stat", "is_dir"} -> "_path_is_not_dir"
      [] m \in {"not_found", "already_exists"} -> "_file_exists_when_expected"
      [] m \in {"unreadable", "unwritable"} -> "_file_has_access_permissions"
      [] m = "suffix" -> "_file_has_expected_suffix"
      [] OTHER -> "in_"

\* C5 as stated: with a valid mode, the error raised is that of the first
\* violated check in the order directory, not-found, already-exists,
\* permission (read before write), suffix, and no check after it has run.
C5_AsStated ==
    (Done /\ ValidMode) =>
        /\ msg = C5_FirstViolatedAsStated
        /\ IsPrefix(ran, C5_Order)
        /\ ran[Len(ran)] = C5_CheckOf(msg)

\* C5, amended: with a valid mode, the error raised is the PermissionError of
\* the status query made by the directory check when the status of the path
\* cannot be queried, and otherwise that of the first violated check in the
\* order directory, not-found, already-exists, permission (read before
\* write), suffix; the checks before it have run, each once and in that order,
\* and no check after it has run.
C5_FirstViolatedCheckRaises ==
    (Done /\ ValidMode) =>
        /\ msg = C5_FirstViolated
        /\ IsPrefix(ran, C5_Order)
        /\ ran[Len(ran)] = C5_CheckOf(msg)

\* An existing file in write mode, in a parent that is not writable and with a
\* wrong suffix, was rejected by the existence check, and nothing ran after it
C5_Witness ==
    /\ Raised
    /\ StatusKnown
    /\ kind = "file"
    /\ expected_permission = <<"w">>
    /\ ~parentWritable
    /\ SuffixMismatch
    /\ exc = "FileExistsError"
    /\ ran = <<"instance_of", "_path_is_not_dir", "_file_exists_when_expected">>

\* C6 as stated: after a successful construction the path is a regular file
\* (if it exists at all), never a directory, exists if the mode reads, does
\* not exist if the mode is "w", and has the permissions the mode asks for.
C6_AsStated ==
    Constructed =>
        /\ kind # "dir"
        /\ kind # "absent" => kind = "file"
        /\ ModeReads => kind # "absent"
        /\ expected_permission = <<"w">> => kind = "absent"
        /\ ModeReads => readable
        /\ ModeWrites => parentWritable

\* C6, amended: after a successful construction the mode is one of the three
\* valid ones, the path is not a directory (it may be something else than a
\* regular file), exists if the mode reads, does not exist if the mode is "w",
\* is readable if the mode reads and has a writable parent if the mode writes.
C6_SuccessImpliesNotDirAndModeMet ==
    Constructed =>
        /\ ValidMode
        /\ kind # "dir"
        /\ ModeReads => kind # "absent"
        /\ expected_permission = <<"w">> => kind = "absent"
        /\ ModeReads => readable
        /\ ModeWrites => parentWritable

\* Mode "w" was accepted for a path that does not exist yet
C6_Witness ==
    /\ Constructed
    /\ expected_permission = <<"w">>
    /\ kind = "absent"
    /\ parentWritable

(***************************************************************************)
(* ValidHDF5: the inputs.                                                  *)
(***************************************************************************)
DatasetNames == {"pose", "confidence", "tracks"}

\* What h5py.File(path, "r") meets: an HDF5 file, or one of the reasons for
\* which the open fails
H5States == {"hdf5", "not_hdf5", "missing", "unreadable", "directory"}

(***************************************************************************)
(* ValidHDF5: the validators, as functions of what they read.              *)
(***************************************************************************)
\* h5py.File(value, "r") returns a handle
opens_as_h5(st) == st = "hdf5"

\* What h5py.File raises when the open fails
open_error(st) ==
    CASE st = "missing" -> "FileNotFoundError"
      [] st = "unreadable" -> "PermissionError"
      [] st = "directory" -> "IsADirectoryError"
      [] OTHER -> "OSError"

file_is_h5_OnlyOSError(st) ==
    IF opens_as_h5(st)
    THEN NoError
    ELSE IF open_error(st) = "OSError"
         THEN Error("ValueError", "not_hdf5")
         ELSE Error(open_error(st), "open_failed")

\* try: with h5py.File(...) as f: f.close()  except Exception: ValueError
file_is_h5(st) ==
    IF opens_as_h5(st)
    THEN NoError
    ELSE Error("ValueError", "not_hdf5")

\* Events on file handles in _file_is_h5: f.close() closes the handle, the
\* end of the with block finds it closed
file_is_h5_events(st) ==
    IF opens_as_h5(st) THEN <<"open", "close">> ELSE <<"open_failed">>

missing_datasets_Reversed(expected, keys) == keys \ Range(expected)

\* set(self.expected_datasets).difference(set(f.keys()))
missing_datasets(expected, keys) == Range(expected) \ keys

file_contains_expected_datasets(expected, st, keys) ==
    IF expected # <<>>
    THEN IF ~opens_as_h5(st)
         THEN Error(open_error(st), "open_failed")
         ELSE IF Cardinality(missing_datasets(expected, keys)) > 0
              THEN Error("ValueError", "missing_datasets")
              ELSE NoError
    ELSE NoError

\* The names the error message of _file_contains_expected_datasets lists
datasets_listed(expected, st, keys) ==
    IF file_contains_expected_datasets(expected, st, keys).msg = "missing_datasets"
    THEN missing_datasets(expected, keys)
    ELSE {}

expected_datasets_events_LeakOnRaise(expected, st, keys) ==
    IF expected # <<>>
    THEN IF ~opens_as_h5(st)
         THEN <<"open_failed">>
         ELSE IF missing_datasets(expected, keys) # {}
              THEN <<"open">>
              ELSE <<"open", "close">>
    ELSE <<>>

\* Events on file handles in _file_contains_expected_datasets: the with block
\* closes the handle on return and on raise; no open with nothing expected
expected_datasets_events(expected, st, keys) ==
    IF expected # <<>>
    THEN IF opens_as_h5(st) THEN <<"open", "close">> ELSE <<"open_failed">>
    ELSE <<>>

ValidHDF5Chain ==
    << "instance_of", "_file_is_h5", "_file_contains_expected_datasets" >>

InitH5 ==
    /\ cls = "ValidHDF5"
    /\ argType \in ArgTypes
    /\ h5state \in H5States
    /\ h5keys \in SUBSET DatasetNames
    /\ h5state # "hdf5" => h5keys = {}
    /\ expected_datasets \in SeqsUpTo(DatasetNames, MaxExpected)
    /\ NoFileInputs
    /\ NoDlcInputs
    /\ NoViaInputs
    /\ NotStarted
    /\ OthersIdle

\* __init__ assigns the fields; path has no converter
H5Assign ==
    /\ pc = "new"
    /\ pathType' = argType
    /\ pc' = ValidHDF5Chain[1]
    /\ UNCHANGED <<inputs, ran, exc, msg, listed, h5log, fscalls, viaOut, others>>

H5InstanceOf ==
    /\ Validate(ValidHDF5Chain, "instance_of", instance_of_Path(pathType))
    /\ UNCHANGED <<inputs, pathType, listed, h5log, viaOut>>

FileIsH5 ==
    /\ Validate(ValidHDF5Chain, "_file_is_h5", file_is_h5(h5state))
    /\ h5log' = h5log \o file_is_h5_events(h5state)
    /\ UNCHANGED <<inputs, pathType, listed, viaOut>>

FileContainsExpectedDatasets ==
    /\ Validate(ValidHDF5Chain, "_file_contains_expected_datasets",
                file_contains_expected_datasets(expected_datasets, h5state, h5keys))
    /\ listed' = datasets_listed(expected_datasets, h5state, h5keys)
    /\ h5log' = h5log \o expected_datasets_events(expected_datasets, h5state, h5keys)
    /\ UNCHANGED <<inputs, pathType, viaOut>>

NextH5 ==
    \/ H5Assign
    \/ H5InstanceOf
    \/ FileIsH5
    \/ FileContainsExpectedDatasets

SpecH5 == InitH5 /\ [][NextH5]_vars

TypeOKH5 ==
    /\ pc \in Range(ValidHDF5Chain) \cup {"new", "constructed", "raised"}
    /\ IsPrefix(ran, ValidHDF5Chain)
    /\ Raised <=> exc # "none"
    /\ listed \subseteq DatasetNames

(***************************************************************************)
(* ValidHDF5: the claims.  ValidHDF5 documents its path as a pathlib.Path; *)
(* C7, C8 and C9 are about the constructions that are given one, C10 is    *)
(* about the others.                                                       *)
(***************************************************************************)
Count(log, e) == Cardinality({i \in 1..Len(log) : log[i] = e})

\* C7: given a Path to a file that opens as HDF5, the construction of
\* ValidHDF5 succeeds if and only if every name of expected_datasets is among
\* the top-level keys of the file (always, with nothing expected); otherwise
\* it ends with a ValueError that lists exactly the expected names that are
\* not keys of the file.
C7_MissingDatasetsListedExactly ==
    (Done /\ argType = "Path" /\ h5state = "hdf5") =>
        /\ Constructed <=> (\A n \in Range(expected_datasets) : n \in h5keys)
        /\ Raised => (exc = "ValueError" /\ msg = "missing_datasets")
        /\ \A n \in DatasetNames :
               n \in listed <=> (Raised /\ n \in Range(expected_datasets) /\ n \notin h5keys)
        /\ (expected_datasets = <<>>) => Constructed

\* Of the expected pose and tracks the file has pose only: tracks is listed
C7_Witness ==
    /\ Raised
    /\ argType = "Path"
    /\ h5state = "hdf5"
    /\ expected_datasets = <<"pose", "tracks">>
    /\ h5keys = {"pose", "confidence"}
    /\ exc = "ValueError"
    /\ listed = {"tracks"}

\* C8: given a Path to a file that cannot be opened as HDF5, whatever the
\* reason, the construction of ValidHDF5 ends with the ValueError of
\* _file_is_h5, and the expected-datasets check has not run; whenever the
\* expected-datasets check runs, _file_is_h5 has run before it and passed.
C8_UnopenableFileRaisesValueError ==
    /\ (Done /\ argType = "Path" /\ h5state # "hdf5") =>
           /\ exc = "ValueError"
           /\ msg = "not_hdf5"
           /\ "_file_contains_expected_datasets" \notin Range(ran)
           /\ ran[Len(ran)] = "_file_is_h5"
    /\ ("_file_contains_expected_datasets" \in Range(ran)) =>
           /\ h5state = "hdf5"
           /\ ran = <<"instance_of", "_file_is_h5", "_file_contains_expected_datasets">>

\* A missing file, with datasets expected, was rejected by _file_is_h5
C8_Witness ==
    /\ Raised
    /\ argType = "Path"
    /\ h5state = "missing"
    /\ expected_datasets # <<>>
    /\ exc = "ValueError"
    /\ ran = <<"instance_of", "_file_is_h5">>

\* C9 as stated: every validation (of a Path to a file that opens as HDF5)
\* opens the file twice and closes it twice, and leaves no handle open.
C9_AsStated ==
    (Done /\ argType = "Path" /\ h5state = "hdf5") =>
        /\ Count(h5log, "open") = 2
        /\ Count(h5log, "close") = 2

\* C9, amended: a validation opens the file at most twice and closes every
\* handle it opened before the construction returns or raises.  It opens and
\* closes it twice only if the file opens as HDF5 and expected_datasets is
\* not empty; with an empty expected_datasets it opens and closes it once; if
\* the file does not open as HDF5 there is the one failed open of _file_is_h5
\* and no handle; if the path is not a Path nothing is opened.
C9_HandlesOpenedAndClosed ==
    Done =>
        h5log = IF argType # "Path" THEN <<>>
                ELSE IF h5state # "hdf5" THEN <<"open_failed">>
                ELSE IF expected_datasets = <<>> THEN <<"open", "close">>
                ELSE <<"open", "close", "open", "close">>

\* The second check raised for a missing dataset, after two opens and closes
C9_Witness ==
    /\ Raised
    /\ msg = "missing_datasets"
    /\ h5log = <<"open", "close", "open", "close">>

\* What the construction of ValidHDF5 ends with when given a Path
C10_OutcomeWithPath ==
    IF h5state # "hdf5" THEN "ValueError"
    ELSE IF Range(expected_datasets) \subseteq h5keys THEN "none"
    ELSE "ValueError"

\* C10 as stated: a construction given the path as a string runs the format
\* check on the file and ends as the construction given the equivalent Path.
C10_AsStated ==
    (Done /\ argType = "str") =>
        /\ "_file_is_h5" \in Range(ran)
        /\ exc = C10_OutcomeWithPath

(***************************************************************************)
(* ValidDeepLabCutCSV: the inputs.  A line is what readline() returns: a   *)
(* sequence of atoms, each a word, a digit, a comma or the newline that    *)
(* ends the line; the empty line is readline() at the end of the file.     *)
(***************************************************************************)
Digits == {"0", "1", "2", "3"}

\* What the lines of the file start with
DLCStarts ==
    { <<>>, <<"scorer">>, <<"individuals">>, <<"bodyparts">>, <<"coords">>,
      <<"3">>, <<"1", "2">>, <<"3", "x">> }

EndOfFile == <<>>

\* Lines with further fields, lines of one field only, and the end of the file
DLCLines ==
    {t \o <<",", "x", "\n">> : t \in DLCStarts}
        \cup {t \o <<"\n">> : t \in {<<"scorer">>, <<"3">>}}
        \cup {EndOfFile}

(***************************************************************************)
(* ValidDeepLabCutCSV: the validator.                                      *)
(***************************************************************************)
\* line.split(",")[0]: the line up to its first comma, the whole line if it
\* has none
FirstField(line) ==
    IF Contains(line, ",")
    THEN SubSeq(line, 1, (CHOOSE i \in 1..Len(line) :
                              line[i] = "," /\ \A j \in 1..(i-1) : line[j] # ",") - 1)
    ELSE line

\* str.isdigit(): at least one character, and digits only
isdigit(t) == t # <<>> /\ \A i \in 1..Len(t) : t[i] \in Digits

\* [f.readline().split(",")[0] for _ in range(4)]
top4_row_starts(lines) == [i \in 1..4 |-> FirstField(lines[i])]

\* expected_levels, after the append or the insert
dlc_expected_levels(top4) ==
    IF isdigit(top4[4])
    THEN << <<"scorer">>, <<"bodyparts">>, <<"coords">>, top4[4] >>
    ELSE << <<"scorer">>, <<"individuals">>, <<"bodyparts">>, <<"coords">> >>

dlc_csv_file_contains_expected_levels_Unordered(lines) ==
    LET top4 == top4_row_starts(lines)
    IN  IF Range(top4) # Range(dlc_expected_levels(top4))
        THEN Error("ValueError", "dlc_levels")
        ELSE NoError

dlc_csv_file_contains_expected_levels(lines) ==
    LET top4 == top4_row_starts(lines)
    IN  IF top4 # dlc_expected_levels(top4)
        THEN Error("ValueError", "dlc_levels")
        ELSE NoError

ValidDeepLabCutCSVChain == << "instance_of", "_csv_file_contains_expected_levels" >>

InitDLC ==
    /\ cls = "ValidDeepLabCutCSV"
    /\ argType \in ArgTypes
    /\ dlcLines \in [1..4 -> DLCLines]
    /\ \A i \in 1..3 : dlcLines[i] = EndOfFile => dlcLines[i + 1] = EndOfFile
    /\ NoFileInputs
    /\ NoH5Inputs
    /\ NoViaInputs
    /\ NotStarted
    /\ OthersIdle

\* __init__ assigns the field; path has no converter
DLCAssign ==
    /\ pc = "new"
    /\ pathType' = argType
    /\ pc' = ValidDeepLabCutCSVChain[1]
    /\ UNCHANGED <<inputs, ran, exc, msg, listed, h5log, fscalls, viaOut, others>>

DLCInstanceOf ==
    /\ Validate(ValidDeepLabCutCSVChain, "instance_of", instance_of_Path(pathType))
    /\ UNCHANGED <<inputs, pathType, listed, h5log, viaOut>>

DLCCsvFileContainsExpectedLevels ==
    /\ Validate(ValidDeepLabCutCSVChain, "_csv_file_contains_expected_levels",
                dlc_csv_file_contains_expected_levels(dlcLines))
    /\ UNCHANGED <<inputs, pathType, listed, h5log, viaOut>>

NextDLC ==
    \/ DLCAssign
    \/ DLCInstanceOf
    \/ DLCCsvFileContainsExpectedLevels

SpecDLC == InitDLC /\ [][NextDLC]_vars

(***************************************************************************)
(* ValidDeepLabCutCSV: the claim.                                          *)
(***************************************************************************)
\* The line starts with the atoms of t, and a comma follows them
StartsWithField(line, t) ==
    /\ Len(line) > Len(t)
    /\ SubSeq(line, 1, Len(t)) = t
    /\ line[Len(t) + 1] = ","

\* The line starts with one or more digits, and a comma follows them
StartsWithDigitsField(line) ==
    \E n \in 1..Len(line) :
        /\ Len(line) > n
        /\ \A i \in 1..n : line[i] \in Digits
        /\ line[n + 1] = ","

C11_SingleAnimal ==
    /\ StartsWithField(dlcLines[1], <<"scorer">>)
    /\ StartsWithField(dlcLines[2], <<"bodyparts">>)
    /\ StartsWithField(dlcLines[3], <<"coords">>)
    /\ StartsWithDigitsField(dlcLines[4])

C11_MultiAnimal ==
    /\ StartsWithField(dlcLines[1], <<"scorer">>)
    /\ StartsWithField(dlcLines[2], <<"individuals">>)
    /\ StartsWithField(dlcLines[3], <<"bodyparts">>)
    /\ StartsWithField(dlcLines[4], <<"coords">>)

\* C11: given a Path, the construction of ValidDeepLabCutCSV succeeds if and
\* only if the first four lines of the file start, before their first comma,
\* with scorer, bodyparts, coords and a string of digits, or with scorer,
\* individuals, bodyparts and coords, in that order; for every other four
\* lines, reordered labels among them, it ends with ValueError.
C11_HeaderIsOneOfTwoForms ==
    (Done /\ argType = "Path") =>
        /\ Constructed <=> (C11_SingleAnimal \/ C11_MultiAnimal)
        /\ Raised => (exc = "ValueError" /\ msg = "dlc_levels")

\* The four labels of the multi-animal form, two of them swapped, were rejected
C11_Witness ==
    /\ Raised
    /\ exc = "ValueError"
    /\ top4_row_starts(dlcLines) =
           << <<"scorer">>, <<"bodyparts">>, <<"individuals">>, <<"coords">> >>

\* The single-animal form with the two-digit string 12 was accepted
C11_WitnessAccepted ==
    /\ Constructed
    /\ top4_row_starts(dlcLines) =
           << <<"scorer">>, <<"bodyparts">>, <<"coords">>, <<"1", "2">> >>

(***************************************************************************)
(* ValidVIAtracksCSV: text, numbers and dictionary literals.               *)
(***************************************************************************)
Min(S) == CHOOSE x \in S : \A y \in S : x <= y

DigitValue(c) ==
    CASE c = "0" -> 0 [] c = "1" -> 1 [] c = "2" -> 2 [] c = "3" -> 3

\* int(s) of a string of digits
RECURSIVE IntOf(_)
IntOf(s) ==
    IF s = <<>> THEN 0
    ELSE 10 * IntOf(SubSeq(s, 1, Len(s) - 1)) + DigitValue(s[Len(s)])

\* int(v) does not raise: v is a non-empty string of digits
int_castable(v) == v # <<>> /\ \A i \in 1..Len(v) : v[i] \in Digits

\* str.strip("\n"): the line without its leading and trailing newlines
RECURSIVE StripNewlines(_)
StripNewlines(line) ==
    IF line = <<>> THEN line
    ELSE IF line[1] = "\n" THEN StripNewlines(Tail(line))
    ELSE IF line[Len(line)] = "\n" THEN StripNewlines(SubSeq(line, 1, Len(line) - 1))
    ELSE line

\* str.split(","): the fields between the commas, one (empty) field if the
\* line is empty
RECURSIVE Split(_)
Split(line) ==
    IF ~Contains(line, ",") THEN <<line>>
    ELSE <<FirstField(line)>> \o Split(SubSeq(line, Len(FirstField(line)) + 2, Len(line)))

\* The text of a line with the given fields
RECURSIVE Join(_)
Join(fields) ==
    IF Len(fields) = 0 THEN <<>>
    ELSE IF Len(fields) = 1 THEN fields[1]
    ELSE fields[1] \o <<",">> \o Join(Tail(fields))

\* A cell holding a dictionary literal: raises is the exception of
\* ast.literal_eval on it ("none" if it parses), d the dictionary it gives.
\* Text that is no Python expression raises SyntaxError, an expression that
\* is no literal raises ValueError.
EmptyDict == [k \in {} |-> <<>>]
DictCell(d) == [raises |-> "none", d |-> d]
MalformedCell == [raises |-> "SyntaxError", d |-> EmptyDict]
NotLiteralCell == [raises |-> "ValueError", d |-> EmptyDict]

\* ast.literal_eval(cell) raises
literal_eval_raises(cell) == cell.raises # "none"

\* ast.literal_eval(cell)
literal_eval(cell) == cell.d

(***************************************************************************)
(* The pattern of the frame number in a file name: an underscore, a zero,  *)
(* any digits, a dot and one or more word characters up to the end of the  *)
(* name.  File names hold no newline.                                      *)
(***************************************************************************)
WordChars == {"a", "b", "p", "q", "_"} \cup Digits

MatchesAt_AnyDigits(s, i, j) ==
    /\ i >= 1 /\ i + 1 < j /\ j < Len(s)
    /\ s[i] = "_"
    /\ \A k \in (i + 1)..(j - 1) : s[k] \in Digits
    /\ s[j] = "."
    /\ \A k \in (j + 1)..Len(s) : s[k] \in WordChars

\* The pattern matches at position i of s with the dot at position j:
\* s[i] is the underscore, s[i+1] the zero, s[i+2..j-1] digits, s[j] the
\* dot, s[j+1..] one or more word characters up to the end of s
MatchesAt(s, i, j) ==
    /\ i >= 1 /\ i + 1 < j /\ j < Len(s)
    /\ s[i] = "_"
    /\ s[i + 1] = "0"
    /\ \A k \in (i + 2)..(j - 1) : s[k] \in Digits
    /\ s[j] = "."
    /\ \A k \in (j + 1)..Len(s) : s[k] \in WordChars

\* re.search(pattern, f) finds a match
regex_match(s) == \E i \in 1..Len(s), j \in 1..Len(s) : MatchesAt(s, i, j)

\* regex_match.group(1): the digits of the leftmost match
regex_group1(s) ==
    LET i == Min({a \in 1..Len(s) : \E j \in 1..Len(s) : MatchesAt(s, a, j)})
        j == CHOOSE b \in 1..Len(s) : MatchesAt(s, i, b)
    IN  SubSeq(s, i + 1, j - 1)

(***************************************************************************)
(* pd.read_csv(value, sep=",", header=0) infers the type of a column from  *)
(* the text of its cells.  A column whose cells are all integers is an     *)
(* int64 column; a column of integers, decimal numbers and empty cells is  *)
(* a float64 column, its empty cells NaN; any other column is an object    *)
(* column that holds the text of its cells as str, and NaN for the empty   *)
(* ones.  A value that is a str is the sequence of its characters; a       *)
(* number is the name of its type followed by its canonical text, so that  *)
(* equal numbers are equal values and no number is equal to a str.  The    *)
(* other spellings pandas reads as numbers or as missing values (an        *)
(* exponent, inf, NA, nan, null, ...) need letters the file names of the   *)
(* model do not have.                                                      *)
(***************************************************************************)
Signs == {"-", "+"}

\* The text without its sign
unsigned(s) == IF s # <<>> /\ s[1] \in Signs THEN Tail(s) ELSE s

\* The empty cell is a missing value
is_na_text(s) == s = <<>>

\* An optional sign and one or more digits
is_int_text(s) ==
    LET u == unsigned(s)
    IN  u # <<>> /\ \A i \in 1..Len(u) : u[i] \in Digits

\* An optional sign, digits, one decimal point, digits: one digit at least
is_float_text(s) ==
    LET u == unsigned(s)
    IN  /\ Len(u) >= 2
        /\ \A i \in 1..Len(u) : u[i] \in Digits \cup {"."}
        /\ Cardinality({i \in 1..Len(u) : u[i] = "."}) = 1

\* The dtype pandas gives the column of these cells
column_dtype(cells) ==
    IF cells = <<>> THEN "object"
    ELSE IF \A i \in 1..Len(cells) : is_int_text(cells[i]) THEN "int64"
    ELSE IF \A i \in 1..Len(cells) :
                is_int_text(cells[i]) \/ is_float_text(cells[i]) \/ is_na_text(cells[i])
    THEN "float64"
    ELSE "object"

RECURSIVE strip_leading_zeros(_)
strip_leading_zeros(d) ==
    IF Len(d) > 1 /\ d[1] = "0" THEN strip_leading_zeros(Tail(d)) ELSE d

RECURSIVE strip_trailing_zeros(_)
strip_trailing_zeros(d) ==
    IF d # <<>> /\ d[Len(d)] = "0"
    THEN strip_trailing_zeros(SubSeq(d, 1, Len(d) - 1))
    ELSE d

\* The canonical text of the number s is the text of: no sign for zero, no
\* leading zeros, no trailing zeros after the decimal point, no decimal point
\* without digits after it
number(s) ==
    LET u == unsigned(s)
        dot == IF Contains(u, ".") THEN RFind(u, ".") + 1 ELSE Len(u) + 1
        whole == SubSeq(u, 1, dot - 1)
        int_part == strip_leading_zeros(IF whole = <<>> THEN <<"0">> ELSE whole)
        frac_part == strip_trailing_zeros(SubSeq(u, dot + 1, Len(u)))
        zero == int_part = <<"0">> /\ frac_part = <<>>
    IN  (IF s[1] = "-" /\ ~zero THEN <<"-">> ELSE <<>>)
            \o int_part
            \o (IF frac_part # <<>> THEN <<".">> \o frac_part ELSE <<>>)

NaN == <<"nan">>

\* The value the data frame holds for a cell of a column of that dtype
cell_value(dtype, s) ==
    CASE dtype = "int64" -> <<"int64">> \o number(s)
      [] dtype = "float64" -> IF is_na_text(s) THEN NaN ELSE <<"float64">> \o number(s)
      [] OTHER -> IF is_na_text(s) THEN NaN ELSE s

\* isinstance(v, str), for a value of the data frame
is_str(v) == v # NaN /\ v[1] \notin {"int64", "float64"}

(***************************************************************************)
(* ValidVIAtracksCSV: the validators, as functions of the file.  A row is  *)
(* a record of the text of the cells filename, file_attributes,            *)
(* region_shape_attributes and region_attributes; row i of the sequence is *)
(* row i - 1 of the data frame.                                            *)
(***************************************************************************)
ViaOK == [exc |-> "none", msg |-> "none", cited |-> NoRow]
ViaError(e, m) == [exc |-> e, msg |-> m, cited |-> NoRow]
ViaErrorAt(e, m, f, r) == [exc |-> e, msg |-> m, cited |-> [filename |-> f, row |-> r]]

via_expected_levels ==
    << <<"filename">>, <<"file_size">>, <<"file_attributes">>, <<"region_count">>,
       <<"region_id">>, <<"region_shape_attributes">>, <<"region_attributes">> >>

\* f.readline().strip("\n").split(",")
via_header(line) == Split(StripNewlines(line))

via_csv_file_contains_expected_levels_Unordered(line) ==
    IF Range(via_header(line)) # Range(via_expected_levels)
    THEN ViaError("ValueError", "via_header")
    ELSE ViaOK

via_csv_file_contains_expected_levels(line) ==
    IF via_header(line) # via_expected_levels
    THEN ViaError("ValueError", "via_header")
    ELSE ViaOK

RowIndices(rows) == 1..Len(rows)

\* df["filename"]: the values read from the filename cells, row by row
df_filenames(rows) ==
    LET cells == [j \in RowIndices(rows) |-> rows[j].filename]
        dtype == column_dtype(cells)
    IN  [j \in RowIndices(rows) |-> cell_value(dtype, cells[j])]

\* df.filename.iloc[i - 1]: the value read from the filename cell of row i
df_filename(rows, i) == df_filenames(rows)[i]

\* df.filename.unique()
unique_filenames(rows) == Range(df_filenames(rows))

\* all(["frame" in d for d in file_attributes_dicts])
all_have_frame(rows) ==
    \A i \in RowIndices(rows) : "frame" \in DOMAIN literal_eval(rows[i].file_attributes)

\* Whether the frame number of row i is read from its 'frame' file attribute
frame_from_attribute_PerRow(rows, i) ==
    /\ "frame" \in DOMAIN literal_eval(rows[i].file_attributes)
    /\ int_castable(literal_eval(rows[i].file_attributes).frame)

frame_from_attribute(rows, i) == all_have_frame(rows)

\* The frame number appended for row i
frame_number(rows, i) ==
    IF frame_from_attribute(rows, i)
    THEN IntOf(literal_eval(rows[i].file_attributes).frame)
    ELSE IntOf(regex_group1(rows[i].filename))

\* The rows for which no frame number can be appended
rows_without_frame_number(rows) ==
    IF all_have_frame(rows)
    THEN {i \in RowIndices(rows) : ~int_castable(literal_eval(rows[i].file_attributes).frame)}
    ELSE LET filenames == df_filenames(rows)
         IN  {i \in RowIndices(rows) :
                  ~is_str(filenames[i]) \/ ~regex_match(rows[i].filename)}

\* What is raised while list_frame_numbers is built.  re.search(pattern, f)
\* raises TypeError for an f that is no str, outside any try block.
frame_rows_error(rows) ==
    LET malformed == {i \in RowIndices(rows) : literal_eval_raises(rows[i].file_attributes)}
        without == rows_without_frame_number(rows)
    IN  IF malformed # {}
        THEN ViaError(rows[Min(malformed)].file_attributes.raises, "literal_eval")
        ELSE IF without = {} THEN ViaOK
        ELSE IF all_have_frame(rows)
        THEN ViaErrorAt("ValueError", "frame_not_int",
                        df_filename(rows, Min(without)), Min(without) - 1)
        ELSE IF ~is_str(df_filename(rows, Min(without)))
        THEN ViaError("TypeError", "re.search")
        ELSE ViaErrorAt("ValueError", "frame_not_in_filename",
                        df_filename(rows, Min(without)), Min(without) - 1)

\* list_frame_numbers, when the check returns or raises
list_frame_numbers(rows) ==
    LET e == frame_rows_error(rows)
        n == IF e.exc = "none" THEN Len(rows)
             ELSE IF e.msg = "literal_eval" THEN 0
             ELSE Min(rows_without_frame_number(rows)) - 1
    IN  [i \in 1..n |-> frame_number(rows, i)]

\* len(set(list_frame_numbers)) == len(df.filename.unique())
frame_count_matches(rows) ==
    Cardinality(Range(list_frame_numbers(rows))) = Cardinality(unique_filenames(rows))

via_csv_file_contains_valid_frame_numbers_OneBasedRow(rows) ==
    LET e == frame_rows_error(rows)
    IN  IF e.exc # "none"
        THEN IF e.cited = NoRow THEN e
             ELSE ViaErrorAt(e.exc, e.msg, e.cited.filename, e.cited.row + 1)
        ELSE IF ~frame_count_matches(rows) THEN ViaError("ValueError", "frame_count")
        ELSE ViaOK

via_csv_file_contains_valid_frame_numbers(rows) ==
    IF frame_rows_error(rows).exc # "none" THEN frame_rows_error(rows)
    ELSE IF ~frame_count_matches(rows) THEN ViaError("ValueError", "frame_count")
    ELSE ViaOK

ShapeKeys == {"x", "y", "width", "height"}

\* What the body of the loop over the rows raises for row i
bbox_row_error(rows, i) ==
    LET row == rows[i]
        shape == literal_eval(row.region_shape_attributes)
        region == literal_eval(row.region_attributes)
    IN  IF literal_eval_raises(row.region_shape_attributes)
        THEN ViaError(row.region_shape_attributes.raises, "literal_eval")
        ELSE IF literal_eval_raises(row.region_attributes)
        THEN ViaError(row.region_attributes.raises, "literal_eval")
        ELSE IF "name" \notin DOMAIN shape
        THEN ViaError("KeyError", "name")
        ELSE IF shape.name # "rect"
        THEN ViaErrorAt("ValueError", "not_rect", df_filename(rows, i), i - 1)
        ELSE IF ~(ShapeKeys \subseteq DOMAIN shape)
        THEN ViaErrorAt("ValueError", "shape_parameter_missing", df_filename(rows, i), i - 1)
        ELSE IF "track" \notin DOMAIN region
        THEN ViaErrorAt("ValueError", "track_missing", df_filename(rows, i), i - 1)
        ELSE IF ~int_castable(region.track)
        THEN ViaErrorAt("ValueError", "track_not_int", df_filename(rows, i), i - 1)
        ELSE ViaOK

via_csv_file_contains_tracked_bboxes_FirstRowOnly(rows) ==
    IF Len(rows) >= 1 THEN bbox_row_error(rows, 1) ELSE ViaOK

via_csv_file_contains_tracked_bboxes(rows) ==
    LET bad == {i \in RowIndices(rows) : bbox_row_error(rows, i).exc # "none"}
    IN  IF bad = {} THEN ViaOK ELSE bbox_row_error(rows, Min(bad))

\* What int(ast.literal_eval(row.region_attributes)["track"]) raises for row i
track_id_error(rows, i) ==
    LET cell == rows[i].region_attributes
    IN  IF literal_eval_raises(cell) THEN ViaError(cell.raises, "literal_eval")
        ELSE IF "track" \notin DOMAIN literal_eval(cell) THEN ViaError("KeyError", "track")
        ELSE IF ~int_castable(literal_eval(cell).track) THEN ViaError("ValueError", "int")
        ELSE ViaOK

\* The rows of one file name: df.loc[df["filename"] == file].  NaN is equal
\* to nothing, itself included.
rows_of(rows, file) ==
    LET filenames == df_filenames(rows)
    IN  {i \in RowIndices(rows) : file # NaN /\ filenames[i] = file}

track_ids_repeat_AcrossFiles(rows, file) ==
    \E i \in rows_of(rows, file), j \in RowIndices(rows) :
        /\ i # j
        /\ IntOf(literal_eval(rows[i].region_attributes).track) =
               IntOf(literal_eval(rows[j].region_attributes).track)

\* len(set(list_track_IDs_one_filename)) != len(list_track_IDs_one_filename)
track_ids_repeat(rows, file) ==
    \E i, j \in rows_of(rows, file) :
        /\ i # j
        /\ IntOf(literal_eval(rows[i].region_attributes).track) =
               IntOf(literal_eval(rows[j].region_attributes).track)

\* What one turn of the loop over the file names raises
unique_track_ids_file_error(rows, file) ==
    LET bad == {i \in rows_of(rows, file) : track_id_error(rows, i).exc # "none"}
    IN  IF bad # {} THEN track_id_error(rows, Min(bad))
        ELSE IF track_ids_repeat(rows, file)
        THEN ViaErrorAt("ValueError", "duplicate_track", file, -1)
        ELSE ViaOK

\* The loop goes over list(set(df.filename)), whose order is not determined
\* (a NaN in it has no rows, however many times the set holds it):
\* it raises for the first file name of that order that has an error, so
\* for any of the file names that have one
via_csv_file_contains_unique_track_IDs_per_filename(rows) ==
    LET bad == {f \in unique_filenames(rows) :
                    unique_track_ids_file_error(rows, f).exc # "none"}
    IN  IF bad = {} THEN {ViaOK}
        ELSE {unique_track_ids_file_error(rows, f) : f \in bad}

(***************************************************************************)
(* ValidVIAtracksCSV: the construction.                                    *)
(***************************************************************************)
ValidVIAtracksCSVChain_UniquenessBeforeBboxes ==
    << "instance_of",
       "csv_file_contains_expected_levels",
       "csv_file_contains_valid_frame_numbers",
       "csv_file_contains_unique_track_IDs_per_filename",
       "csv_file_contains_tracked_bboxes" >>

ValidVIAtracksCSVChain_BboxesFirst ==
    << "instance_of",
       "csv_file_contains_expected_levels",
       "csv_file_contains_tracked_bboxes",
       "csv_file_contains_valid_frame_numbers",
       "csv_file_contains_unique_track_IDs_per_filename" >>

ValidVIAtracksCSVChain ==
    << "instance_of",
       "csv_file_contains_expected_levels",
       "csv_file_contains_valid_frame_numbers",
       "csv_file_contains_tracked_bboxes",
       "csv_file_contains_unique_track_IDs_per_filename" >>

\* __init__ assigns the field; path has no converter
ViaAssign ==
    /\ pc = "new"
    /\ pathType' = argType
    /\ pc' = ValidVIAtracksCSVChain[1]
    /\ UNCHANGED <<inputs, ran, exc, msg, listed, h5log, fscalls, viaOut, others>>

ViaInstanceOf ==
    /\ Validate(ValidVIAtracksCSVChain, "instance_of", instance_of_Path(pathType))
    /\ UNCHANGED <<inputs, pathType, listed, h5log, viaOut>>

ViaCsvFileContainsExpectedLevels ==
    LET r == via_csv_file_contains_expected_levels(viaHeader)
    IN  /\ Validate(ValidVIAtracksCSVChain, "csv_file_contains_expected_levels", r)
        /\ cited' = r.cited
        /\ UNCHANGED <<inputs, pathType, listed, h5log, frames>>

ViaCsvFileContainsValidFrameNumbers ==
    LET r == via_csv_file_contains_valid_frame_numbers(viaRows)
    IN  /\ Validate(ValidVIAtracksCSVChain, "csv_file_contains_valid_frame_numbers", r)
        /\ cited' = r.cited
        /\ frames' = list_frame_numbers(viaRows)
        /\ UNCHANGED <<inputs, pathType, listed, h5log>>

ViaCsvFileContainsTrackedBboxes ==
    LET r == via_csv_file_contains_tracked_bboxes(viaRows)
    IN  /\ Validate(ValidVIAtracksCSVChain, "csv_file_contains_tracked_bboxes", r)
        /\ cited' = r.cited
        /\ UNCHANGED <<inputs, pathType, listed, h5log, frames>>

ViaCsvFileContainsUniqueTrackIDsPerFilename ==
    /\ pc = "csv_file_contains_unique_track_IDs_per_filename"
    /\ \E r \in via_csv_file_contains_unique_track_IDs_per_filename(viaRows) :
           /\ Validate(ValidVIAtracksCSVChain,
                       "csv_file_contains_unique_track_IDs_per_filename", r)
           /\ cited' = r.cited
           /\ UNCHANGED <<inputs, pathType, listed, h5log, frames>>

NextVIA ==
    \/ ViaAssign
    \/ ViaInstanceOf
    \/ ViaCsvFileContainsExpectedLevels
    \/ ViaCsvFileContainsValidFrameNumbers
    \/ ViaCsvFileContainsTrackedBboxes
    \/ ViaCsvFileContainsUniqueTrackIDsPerFilename

(***************************************************************************)
(* ValidVIAtracksCSV: the files.                                           *)
(***************************************************************************)
Row(f, fa, sa, ra) ==
    [filename |-> f, file_attributes |-> fa,
     region_shape_attributes |-> sa, region_attributes |-> ra]

\* File names; the comment gives the frame number the pattern finds
Img_a_01 == <<"a", "_", "0", "1", ".", "p">>      \* 1
Img_b_02 == <<"b", "_", "0", "2", ".", "p">>      \* 2
Img_b_01 == <<"b", "_", "0", "1", ".", "p">>      \* 1
Img_a_1 == <<"a", "_", "1", ".", "p">>            \* none: no leading zero
Img_01 == <<"0", "1">>                            \* none: read as the number 1
Img_1 == <<"1">>                                  \* none: read as the number 1
Img_empty == <<>>                                 \* none: read as NaN

\* File attributes
NoFrame == DictCell(EmptyDict)
Frame(v) == DictCell("frame" :> v)

\* Region shape attributes
Rect == DictCell([name |-> "rect", x |-> "1", y |-> "1", width |-> "1", height |-> "1"])
Circle == DictCell([name |-> "circle", x |-> "1", y |-> "1", width |-> "1", height |-> "1"])
RectNoHeight == DictCell([name |-> "rect", x |-> "1", y |-> "1", width |-> "1"])
NoShapeName == DictCell([x |-> "1", y |-> "1", width |-> "1", height |-> "1"])

\* Region attributes
NoTrack == DictCell(EmptyDict)
Track(v) == DictCell("track" :> v)

\* The header line of a well-formed file, and header lines that differ from
\* it in one column
GoodHeader == Join(via_expected_levels) \o <<"\n">>

Without(fields, i) == SubSeq(fields, 1, i - 1) \o SubSeq(fields, i + 1, Len(fields))
Renamed(fields, i) == [fields EXCEPT ![i] = <<"frame">>]
Swapped(fields, i, j) == [fields EXCEPT ![i] = fields[j], ![j] = fields[i]]

HeaderLines ==
    LET E == via_expected_levels
        N == 1..Len(E)
    IN  {GoodHeader, Join(E), <<>>, <<"\n">>, Join(E \o << <<"frame">> >>) \o <<"\n">>}
            \cup {Join(Without(E, i)) \o <<"\n">> : i \in N}
            \cup {Join(Renamed(E, i)) \o <<"\n">> : i \in N}
            \cup {Join(Swapped(E, i, j)) \o <<"\n">> : i \in N, j \in N}

SwappedHeader == Join(Swapped(via_expected_levels, 1, 2)) \o <<"\n">>

InitVIAWith(argTypes, headers, files) ==
    /\ cls = "ValidVIAtracksCSV"
    /\ argType \in argTypes
    /\ viaHeader \in headers
    /\ viaRows \in files
    /\ NoFileInputs
    /\ NoH5Inputs
    /\ NoDlcInputs
    /\ NotStarted
    /\ OthersIdle

\* Files whose rows vary in every cell
AnyRows ==
    {Row(f, fa, sa, ra) :
        f \in {Img_a_01, Img_a_1},
        fa \in {NoFrame, Frame(<<"1">>), MalformedCell},
        sa \in {Rect, Circle},
        ra \in {Track(<<"1">>), NoTrack, Track(<<"x">>)}}

InitVIA == InitVIAWith(ArgTypes, {GoodHeader, SwappedHeader}, SeqsUpTo(AnyRows, MaxRows))

SpecVIA == InitVIA /\ [][NextVIA]_vars

\* Files whose header line varies
GoodRow == Row(Img_a_01, NoFrame, Rect, Track(<<"1">>))
BadRow == Row(Img_a_1, MalformedCell, Circle, NoTrack)

InitVIAHeader == InitVIAWith(ArgTypes, HeaderLines, SeqsUpTo({GoodRow, BadRow}, MaxHeaderRows))

SpecVIAHeader == InitVIAHeader /\ [][NextVIA]_vars

\* Files whose rows vary in file name and file attributes; a file name that
\* is read as a number and one that is read as NaN come without a 'frame'
\* file attribute, the case in which the file name is looked at
FrameRows ==
    {Row(f, fa, Rect, Track(<<"1">>)) :
        f \in {Img_a_01, Img_b_02, Img_b_01, Img_a_1},
        fa \in {NoFrame, Frame(<<"1">>), Frame(<<"0", "2">>), Frame(<<"x">>), MalformedCell}}
    \cup
    {Row(f, fa, Rect, Track(<<"1">>)) :
        f \in {Img_01, Img_empty},
        fa \in {NoFrame}}

InitVIAFrames == InitVIAWith({"Path"}, {GoodHeader}, SeqsUpTo(FrameRows, MaxFrameRows))

SpecVIAFrames == InitVIAFrames /\ [][NextVIA]_vars

\* Files of one row whose file name varies in every character
FilenameChars == {"a", "_", "0", "1", ".", "-"}

FilenameRows ==
    {Row(f, NoFrame, Rect, Track(<<"1">>)) : f \in SeqsUpTo(FilenameChars, MaxFilenameLen)}

InitVIAFilename == InitVIAWith({"Path"}, {GoodHeader}, {<<r>> : r \in FilenameRows})

SpecVIAFilename == InitVIAFilename /\ [][NextVIA]_vars

\* Files whose rows vary in shape and region attributes
BoxRows ==
    {Row(f, NoFrame, sa, ra) :
        f \in {Img_a_01},
        sa \in {Rect, Circle, RectNoHeight, NoShapeName, MalformedCell},
        ra \in {Track(<<"1">>), Track(<<"0", "2">>), Track(<<"x">>), NoTrack, NotLiteralCell}}

InitVIABoxes == InitVIAWith({"Path"}, {GoodHeader}, SeqsUpTo(BoxRows, MaxBoxRows))

SpecVIABoxes == InitVIABoxes /\ [][NextVIA]_vars

\* Files whose rows vary in file name and track ID, with and without a
\* 'frame' file attribute; two of the file names are read as the same
\* number and one as NaN
TrackRows ==
    {Row(f, fa, Rect, ra) :
        f \in {Img_a_01, Img_b_02, Img_01, Img_1, Img_empty},
        fa \in {NoFrame, Frame(<<"1">>)},
        ra \in {Track(<<"1">>), Track(<<"0", "1">>), Track(<<"2">>)}}

InitVIATracks == InitVIAWith({"Path"}, {GoodHeader}, SeqsUpTo(TrackRows, MaxTrackRows))

SpecVIATracks == InitVIATracks /\ [][NextVIA]_vars

TypeOKVIA ==
    /\ pc \in Range(ValidVIAtracksCSVChain) \cup {"new", "constructed", "raised"}
    /\ IsPrefix(ran, ValidVIAtracksCSVChain)
    /\ Raised <=> exc # "none"

(***************************************************************************)
(* ValidVIAtracksCSV: the claims.  C12 to C19 are about the constructions  *)
(* that are given a pathlib.Path; C20 is about the others too.                *)
(***************************************************************************)
HeaderCheckRan == "csv_file_contains_expected_levels" \in Range(ran)
FrameCheckRan == "csv_file_contains_valid_frame_numbers" \in Range(ran)
BboxCheckRan == "csv_file_contains_tracked_bboxes" \in Range(ran)
UniqueCheckRan == "csv_file_contains_unique_track_IDs_per_filename" \in Range(ran)

\* The text of the first line is the seven names, in order, between commas
C12_HeaderIsTheSevenNames ==
    viaHeader \in {Join(via_expected_levels), Join(via_expected_levels) \o <<"\n">>}

\* C12: the header check passes if and only if the first line of the file,
\* split on commas, is exactly the seven names filename, file_size,
\* file_attributes, region_count, region_id, region_shape_attributes,
\* region_attributes in that order; with a missing, an extra, a renamed or a
\* reordered column it raises ValueError, and no later check runs.
C12_HeaderCheckPassesIffSevenNames ==
    (Done /\ argType = "Path") =>
        /\ HeaderCheckRan
        /\ (msg = "via_header") <=> ~C12_HeaderIsTheSevenNames
        /\ (msg = "via_header") => (exc = "ValueError" /\ ~FrameCheckRan)
        /\ C12_HeaderIsTheSevenNames => FrameCheckRan

\* A header whose first two columns are swapped was rejected
C12_Witness ==
    /\ Raised
    /\ argType = "Path"
    /\ viaHeader = SwappedHeader
    /\ exc = "ValueError"
    /\ msg = "via_header"

C13_EveryRowHasFrameKey ==
    \A i \in 1..Len(viaRows) : "frame" \in DOMAIN viaRows[i].file_attributes.d

\* The frame check went through every row without raising for one of them
C13_EveryRowGotAFrameNumber == FrameCheckRan /\ msg \in {"none", "frame_count"}

\* C13: the frame numbers of all rows come from the 'frame' file attribute
\* when every row's file_attributes has a 'frame' key, and from the file
\* names of all rows otherwise, also for the rows that do have a 'frame'
\* key; the two sources are never mixed within one file.
C13_OneSourceForAllRows ==
    FrameCheckRan =>
        /\ C13_EveryRowGotAFrameNumber => Len(frames) = Len(viaRows)
        /\ \A i \in 1..Len(frames) :
               frames[i] = IF C13_EveryRowHasFrameKey
                           THEN IntOf(viaRows[i].file_attributes.d.frame)
                           ELSE IntOf(regex_group1(viaRows[i].filename))

\* The first row has 'frame': 1 and a file name with frame number 2, the
\* second row has no 'frame' key: both frame numbers are read from the names
C13_Witness ==
    /\ Constructed
    /\ viaRows = << Row(Img_b_02, Frame(<<"1">>), Rect, Track(<<"1">>)),
                    Row(Img_a_01, NoFrame, Rect, Track(<<"1">>)) >>
    /\ frames = <<2, 1>>

\* The ways to read s as: anything, an underscore, d digits of which the
\* first is a zero, a dot, and an extension of e word characters
C14_Readings(s) ==
    {r \in [d : 1..Len(s), e : 1..Len(s)] :
        /\ r.d + r.e + 2 <= Len(s)
        /\ LET ext == SubSeq(s, Len(s) - r.e + 1, Len(s))
               digits == SubSeq(s, Len(s) - r.e - r.d, Len(s) - r.e - 1)
           IN  /\ s[Len(s) - r.e - r.d - 1] = "_"
               /\ digits[1] = "0"
               /\ Range(digits) \subseteq Digits
               /\ s[Len(s) - r.e] = "."
               /\ Range(ext) \subseteq WordChars}

C14_DigitsOf(s, r) == SubSeq(s, Len(s) - r.e - r.d, Len(s) - r.e - 1)

\* C14 as stated: when the frame numbers are taken from the file names, a
\* file name yields a frame number exactly when it ends with an underscore,
\* one or more digits of which the first is a zero, a dot and the extension
\* (one or more letters, digits or underscores), and the frame number is the
\* integer value of the digits; for every other file name the check raises a
\* ValueError that names the file name and the row.
C14_AsStated ==
    (FrameCheckRan /\ Len(viaRows) = 1 /\ ~C13_EveryRowHasFrameKey) =>
        LET s == viaRows[1].filename
        IN  IF C14_Readings(s) # {}
            THEN /\ \A r \in C14_Readings(s) : frames = <<IntOf(C14_DigitsOf(s, r))>>
                 /\ msg # "frame_not_in_filename"
            ELSE /\ exc = "ValueError"
                 /\ msg = "frame_not_in_filename"
                 /\ cited = [filename |-> s, row |-> 0]
                 /\ frames = <<>>

\* The text of the filename cell is one that pandas reads as a str
C14_ReadAsStr(s) == ~is_na_text(s) /\ ~is_int_text(s) /\ ~is_float_text(s)

\* What does hold: the statement for the file names that are read as a str;
\* an empty file name and one that reads as a number end the check with
\* TypeError, and no file name or row is cited.
C14_FilenameYieldsFrameNumber ==
    (FrameCheckRan /\ Len(viaRows) = 1 /\ ~C13_EveryRowHasFrameKey) =>
        LET s == viaRows[1].filename
        IN  IF C14_Readings(s) # {}
            THEN /\ C14_ReadAsStr(s)
                 /\ \A r \in C14_Readings(s) : frames = <<IntOf(C14_DigitsOf(s, r))>>
                 /\ msg # "frame_not_in_filename"
            ELSE IF C14_ReadAsStr(s)
            THEN /\ exc = "ValueError"
                 /\ msg = "frame_not_in_filename"
                 /\ cited = [filename |-> s, row |-> 0]
                 /\ frames = <<>>
            ELSE /\ exc = "TypeError"
                 /\ msg = "re.search"
                 /\ cited = NoRow
                 /\ frames = <<>>

\* A file name ending in _01.a gave the frame number 1
C14_Witness ==
    /\ Constructed
    /\ Len(viaRows) = 1
    /\ viaRows[1].filename = <<"_", "0", "1", ".", "a">>
    /\ viaRows[1].file_attributes = NoFrame
    /\ frames = <<1>>

\* The file name 01 is read as the integer 1, and the check ended with
\* TypeError
C14_WitnessNumber ==
    /\ Raised
    /\ Len(viaRows) = 1
    /\ viaRows[1].filename = <<"0", "1">>
    /\ exc = "TypeError"
    /\ cited = NoRow

\* A file name without a zero after the underscore was rejected
C14_WitnessRejected ==
    /\ Raised
    /\ Len(viaRows) = 1
    /\ viaRows[1].filename = <<"a", "_", "1", ".", "a">>
    /\ msg = "frame_not_in_filename"

\* The rows whose file name has no parseable frame number
C15_UnparseableRows == {i \in 1..Len(viaRows) : C14_Readings(viaRows[i].filename) = {}}

\* The rows whose file name has no parseable frame number and whose
\* file_attributes is a dictionary without a 'frame' key
C15_RowsWithNeitherSource ==
    {i \in C15_UnparseableRows :
        /\ viaRows[i].file_attributes.raises = "none"
        /\ "frame" \notin DOMAIN viaRows[i].file_attributes.d}

C15_SomeCellMalformed ==
    \E i \in 1..Len(viaRows) : viaRows[i].file_attributes.raises # "none"

\* C15 as stated: given a row whose file name has no parseable frame number
\* and whose file_attributes lacks a 'frame' key, the frame-number check
\* fails and the error cites the file name and the index of such a row.
C15_AsStated ==
    (FrameCheckRan /\ C15_RowsWithNeitherSource # {}) =>
        /\ exc = "ValueError"
        /\ cited # NoRow
        /\ cited.row + 1 \in C15_RowsWithNeitherSource
        /\ cited.filename = viaRows[cited.row + 1].filename

\* The first row whose file name has no parseable frame number was read by
\* pandas as a str
C15_FirstUnparseableIsStr ==
    is_str(df_filename(viaRows, Min(C15_UnparseableRows)))

\* What does hold of such a file: the frame-number check fails.  The error
\* is what ast.literal_eval raises, citing no row, when a file_attributes
\* cell of the file is not a dictionary literal; otherwise it comes from the
\* first row whose file name has no parseable frame number, a row that may
\* have a 'frame' key itself: TypeError citing no row when that file name
\* was read as a number or NaN, and else ValueError citing that row.
C15_FailsAtFirstUnparseableRow ==
    (FrameCheckRan /\ C15_RowsWithNeitherSource # {}) =>
        /\ Raised
        /\ ~BboxCheckRan
        /\ IF C15_SomeCellMalformed
           THEN exc \in {"SyntaxError", "ValueError"} /\ msg = "literal_eval" /\ cited = NoRow
           ELSE IF ~C15_FirstUnparseableIsStr
           THEN exc = "TypeError" /\ msg = "re.search" /\ cited = NoRow
           ELSE /\ exc = "ValueError"
                /\ msg = "frame_not_in_filename"
                /\ cited # NoRow
                /\ cited.row + 1 = Min(C15_UnparseableRows)
                /\ cited.filename = viaRows[cited.row + 1].filename

\* The second row has neither source of a frame number, and the error cites
\* the first row, which has a 'frame' key
C15_Witness ==
    /\ Raised
    /\ viaRows = << Row(Img_a_1, Frame(<<"1">>), Rect, Track(<<"1">>)),
                    Row(Img_b_02, NoFrame, Rect, Track(<<"1">>)),
                    Row(Img_a_1, NoFrame, Rect, Track(<<"1">>)) >>
    /\ exc = "ValueError"
    /\ cited = [filename |-> Img_a_1, row |-> 0]

\* The second row has an empty file name and no 'frame' key, and the check
\* ended with TypeError, citing no row
C15_WitnessTypeError ==
    /\ Raised
    /\ viaRows = << Row(Img_a_01, NoFrame, Rect, Track(<<"1">>)),
                    Row(Img_empty, NoFrame, Rect, Track(<<"1">>)) >>
    /\ exc = "TypeError"
    /\ cited = NoRow

\* C16 as stated: whenever the frame-number check passes, frame numbers and
\* file names are in a 1:1 mapping: two rows have the same file name if and
\* only if they have the same frame number.
C16_AsStated ==
    (FrameCheckRan /\ exc = "none") =>
        /\ Len(frames) = Len(viaRows)
        /\ \A i, j \in 1..Len(viaRows) :
               (viaRows[i].filename = viaRows[j].filename) <=> (frames[i] = frames[j])

\* What does hold when the check passes: as many distinct frame numbers as
\* distinct file names, as pandas reads them
C16_CountsAgree ==
    (FrameCheckRan /\ exc = "none") =>
        Cardinality(Range(frames)) = Cardinality(unique_filenames(viaRows))

\* A file passed whose first file name has the frame numbers 1 and 2 and
\* whose second file name has the frame number 1 as well
C16_Witness ==
    /\ FrameCheckRan
    /\ exc = "none"
    /\ viaRows = << Row(Img_a_01, Frame(<<"1">>), Rect, Track(<<"1">>)),
                    Row(Img_a_01, Frame(<<"0", "2">>), Rect, Track(<<"1">>)),
                    Row(Img_b_02, Frame(<<"1">>), Rect, Track(<<"1">>)) >>
    /\ frames = <<1, 2, 1>>

\* Row i has region_shape_attributes with name 'rect' and the keys x, y,
\* width and height, and region_attributes with a 'track' key whose value
\* can be cast to an integer
C17_RowIsTrackedBbox(i) ==
    LET shape == viaRows[i].region_shape_attributes
        region == viaRows[i].region_attributes
    IN  /\ shape.raises = "none"
        /\ region.raises = "none"
        /\ "name" \in DOMAIN shape.d
        /\ shape.d.name = "rect"
        /\ {"x", "y", "width", "height"} \subseteq DOMAIN shape.d
        /\ "track" \in DOMAIN region.d
        /\ int_castable(region.d.track)

C17_BboxCheckPassed == BboxCheckRan /\ (exc = "none" \/ UniqueCheckRan)

\* C17: the bounding-box check passes if and only if every row has
\* region_shape_attributes with name 'rect' and all of the keys x, y, width,
\* height, and region_attributes with a 'track' key whose value can be cast
\* to an integer; a row violating any of these makes the check fail, and a
\* ValueError of the check cites the first such row.
C17_BboxCheckPassesIffAllRowsTracked ==
    BboxCheckRan =>
        /\ C17_BboxCheckPassed <=> \A i \in 1..Len(viaRows) : C17_RowIsTrackedBbox(i)
        /\ ~C17_BboxCheckPassed => (Raised /\ ~UniqueCheckRan)
        /\ (~C17_BboxCheckPassed /\ cited # NoRow) =>
               /\ exc = "ValueError"
               /\ ~C17_RowIsTrackedBbox(cited.row + 1)
               /\ \A i \in 1..cited.row : C17_RowIsTrackedBbox(i)
               /\ cited.filename = viaRows[cited.row + 1].filename

\* The second row of a file is a circle, and the check failed citing it
C17_Witness ==
    /\ Raised
    /\ viaRows = << Row(Img_a_01, NoFrame, Rect, Track(<<"1">>)),
                    Row(Img_a_01, NoFrame, Circle, Track(<<"0", "2">>)) >>
    /\ exc = "ValueError"
    /\ msg = "not_rect"
    /\ cited = [filename |-> Img_a_01, row |-> 1]

\* The file name f has two rows whose track IDs are equal as integers
C18_HasDuplicateTrack(f) ==
    \E i, j \in 1..Len(viaRows) :
        /\ i < j
        /\ viaRows[i].filename = f
        /\ viaRows[j].filename = f
        /\ IntOf(viaRows[i].region_attributes.d.track) =
               IntOf(viaRows[j].region_attributes.d.track)

\* C18 as stated: the track-uniqueness check fails if and only if some file
\* name has two or more rows whose track IDs are equal after casting to
\* integer, and the error names a file name that has such a duplicate; the
\* same track ID under different file names never fails the check.
C18_AsStated ==
    UniqueCheckRan =>
        /\ Raised <=> \E i \in 1..Len(viaRows) : C18_HasDuplicateTrack(viaRows[i].filename)
        /\ Raised =>
               /\ exc = "ValueError"
               /\ msg = "duplicate_track"
               /\ C18_HasDuplicateTrack(cited.filename)

\* Rows i and j are compared by the check: pandas read their file names as
\* the same value, and that value is not NaN
C18_ComparedEqual(i, j) ==
    /\ df_filename(viaRows, i) # NaN
    /\ df_filename(viaRows, i) = df_filename(viaRows, j)

\* What does hold: the check fails if and only if two rows whose file names
\* pandas read as the same value other than NaN have track IDs that are
\* equal as integers, and the error names that value.
C18_FailsIffDuplicateWithinValueRead ==
    UniqueCheckRan =>
        /\ Raised <=>
               \E i, j \in 1..Len(viaRows) :
                   /\ i < j
                   /\ C18_ComparedEqual(i, j)
                   /\ IntOf(viaRows[i].region_attributes.d.track) =
                          IntOf(viaRows[j].region_attributes.d.track)
        /\ Raised =>
               /\ exc = "ValueError"
               /\ msg = "duplicate_track"
               /\ \E i, j \in 1..Len(viaRows) :
                      /\ i < j
                      /\ C18_ComparedEqual(i, j)
                      /\ df_filename(viaRows, i) = cited.filename
                      /\ IntOf(viaRows[i].region_attributes.d.track) =
                             IntOf(viaRows[j].region_attributes.d.track)

\* The file names 01 and 1, each with one row of track ID 1, were read as
\* the same number, and the check failed naming that number
C18_WitnessMerged ==
    /\ Raised
    /\ UniqueCheckRan
    /\ viaRows = << Row(Img_01, Frame(<<"1">>), Rect, Track(<<"1">>)),
                    Row(Img_1, Frame(<<"1">>), Rect, Track(<<"1">>)) >>
    /\ msg = "duplicate_track"
    /\ cited.filename = cell_value("int64", Img_01)

\* Two rows with an empty file name and the track ID 1 passed
C18_WitnessEmpty ==
    /\ Constructed
    /\ viaRows = << Row(Img_empty, Frame(<<"1">>), Rect, Track(<<"1">>)),
                    Row(Img_empty, Frame(<<"1">>), Rect, Track(<<"1">>)) >>

\* The file name of the first and third rows has the track IDs '1' and
\* '01', the other file name has the track ID '1' once: the error names
\* the first
C18_Witness ==
    /\ Raised
    /\ UniqueCheckRan
    /\ viaRows = << Row(Img_a_01, NoFrame, Rect, Track(<<"1">>)),
                    Row(Img_b_02, NoFrame, Rect, Track(<<"1">>)),
                    Row(Img_a_01, NoFrame, Rect, Track(<<"0", "1">>)) >>
    /\ cited.filename = Img_a_01

\* The same track ID under two file names passed
C18_WitnessAcrossFiles ==
    /\ Constructed
    /\ viaRows = << Row(Img_a_01, NoFrame, Rect, Track(<<"1">>)),
                    Row(Img_b_02, NoFrame, Rect, Track(<<"1">>)) >>

\* The four checks in the order of the claim
C19_Order ==
    << "csv_file_contains_expected_levels",
       "csv_file_contains_valid_frame_numbers",
       "csv_file_contains_tracked_bboxes",
       "csv_file_contains_unique_track_IDs_per_filename" >>

\* What each check raises for the file, taken on its own
C19_Errors(k) ==
    CASE k = 1 -> {via_csv_file_contains_expected_levels(viaHeader)}
      [] k = 2 -> {via_csv_file_contains_valid_frame_numbers(viaRows)}
      [] k = 3 -> {via_csv_file_contains_tracked_bboxes(viaRows)}
      [] k = 4 -> via_csv_file_contains_unique_track_IDs_per_filename(viaRows)

C19_Violated == {k \in 1..4 : ViaOK \notin C19_Errors(k)}

\* C19: the construction runs the checks in the order header, frame numbers,
\* bounding boxes, track uniqueness; for a file violating several checks the
\* error raised is that of the earliest violated check, the later checks are
\* not run, and the construction succeeds exactly when all four pass.
C19_EarliestViolatedCheckRaises ==
    (Done /\ argType = "Path") =>
        IF C19_Violated = {}
        THEN Constructed /\ ran = <<"instance_of">> \o C19_Order
        ELSE LET k == Min(C19_Violated)
             IN  /\ Raised
                 /\ ran = <<"instance_of">> \o SubSeq(C19_Order, 1, k)
                 /\ [exc |-> exc, msg |-> msg, cited |-> cited] \in C19_Errors(k)

\* A file with a good header whose only row violates the frame-number check
\* and the bounding-box check: the error is that of the frame-number check
\* and the bounding-box check did not run
C19_Witness ==
    /\ Raised
    /\ argType = "Path"
    /\ viaHeader = GoodHeader
    /\ viaRows = << Row(Img_a_1, NoFrame, Circle, NoTrack) >>
    /\ msg = "frame_not_in_filename"
    /\ FrameCheckRan
    /\ ~BboxCheckRan

\* A file passing all four checks was constructed
C19_WitnessConstructed ==
    /\ Constructed
    /\ argType = "Path"
    /\ viaRows = << Row(Img_a_01, NoFrame, Rect, Track(<<"1">>)) >>

\* C20 as stated: every way a file can fail the VIA tracks requirements
\* makes the construction from a pathlib.Path raise a ValueError; no other
\* exception type escapes.
C20_AsStated ==
    (Raised /\ argType = "Path") => exc = "ValueError"

\* A file_attributes cell that is not a complete dictionary literal ended
\* the construction with the SyntaxError of ast.literal_eval
C20_Witness ==
    /\ Raised
    /\ argType = "Path"
    /\ viaHeader = GoodHeader
    /\ viaRows = << Row(Img_a_01, MalformedCell, Rect, Track(<<"1">>)) >>
    /\ exc = "SyntaxError"
    /\ msg = "literal_eval"
    /\ cited = NoRow

\* What does hold: the exceptions that escape are ValueError, and the
\* SyntaxError of ast.literal_eval
C20_EscapingExceptions ==
    (Raised /\ argType = "Path") =>
        /\ exc \in {"ValueError", "SyntaxError"}
        /\ exc = "SyntaxError" =>
               \E i \in 1..Len(viaRows) : viaRows[i].file_attributes = MalformedCell

(***************************************************************************)
(* ValidFile: an expected_permission that is none of "r", "w", "rw".       *)
(***************************************************************************)
\* C30 as stated: the construction of ValidFile never succeeds with an
\* expected_permission outside "r", "w", "rw", and the path checks never
\* read such a value as a valid mode, to raise a not-found, already-exists
\* or permission error in place of the invalid-mode error.
C30_AsStated ==
    (Done /\ ~ValidMode /\ StatusKnown) =>
        /\ Raised
        /\ exc \notin {"FileNotFoundError", "FileExistsError", "PermissionError"}

\* What does hold: the construction never succeeds with such a value
C30_InvalidModeNeverConstructed ==
    (Done /\ ~ValidMode) => Raised

\* With the mode "x" and a path that exists, the construction ended with
\* FileExistsError and the membership validator did not run
C30_Witness ==
    /\ Raised
    /\ expected_permission = <<"x">>
    /\ kind = "file"
    /\ exc = "FileExistsError"
    /\ "in_" \notin Range(ran)

(***************************************************************************)
(* ValidVIAtracksCSV: what the track-uniqueness check can rely on.         *)
(***************************************************************************)
\* The position of validator v in the list of the validators that have run
C29_RanAt(v) == {i \in 1..Len(ran) : ran[i] = v}

\* C29: whenever the track-uniqueness check executes, on a file that is the
\* same at every read, the bounding-box check has run before it and passed
\* on the same rows, so every row has a 'track' that can be cast to an
\* integer, and the uniqueness check raises nothing but the ValueError of a
\* duplicate track ID.
C29_UniquenessRunsAfterBboxesPassed ==
    UniqueCheckRan =>
        /\ \E i \in C29_RanAt("csv_file_contains_tracked_bboxes") :
               \A j \in C29_RanAt("csv_file_contains_unique_track_IDs_per_filename") : i < j
        /\ \A i \in 1..Len(viaRows) :
               /\ viaRows[i].region_attributes.raises = "none"
               /\ "track" \in DOMAIN viaRows[i].region_attributes.d
               /\ int_castable(viaRows[i].region_attributes.d.track)
        /\ Raised => (exc = "ValueError" /\ msg = "duplicate_track")

\* Two rows of one file name with the track ID 1 passed the bounding-box
\* check and failed the uniqueness check
C29_Witness ==
    /\ Raised
    /\ UniqueCheckRan
    /\ viaRows = << Row(Img_a_01, NoFrame, Rect, Track(<<"1">>)),
                    Row(Img_a_01, NoFrame, Rect, Track(<<"1">>)) >>
    /\ msg = "duplicate_track"

(***************************************************************************)
(* The four validators together: the constructor of any of the classes is  *)
(* called, and the validators of that class run.                           *)
(***************************************************************************)
InitValidators ==
    \/ InitFile
    \/ InitH5
    \/ InitDLC
    \/ InitVIAHeader

NextValidators ==
    \/ cls = "ValidFile" /\ NextFile
    \/ cls = "ValidHDF5" /\ NextH5
    \/ cls = "ValidDeepLabCutCSV" /\ NextDLC
    \/ cls = "ValidVIAtracksCSV" /\ NextVIA

SpecValidators == InitValidators /\ [][NextValidators]_vars

\* The accesses that leave the path, its content and its parent directory
\* as they are: queries of the status, tests of the access rights, and
\* opens for reading
C21_Inspecting == {"stat", "R_OK", "W_OK", "r"}

C21_Opens == {"open", "h5py.File", "pd.read_csv"}

\* C21: constructing any of the four validators only inspects the file
\* system: every call it makes on the path is a query of its status, a test
\* of access rights or an open for reading, none creates, deletes, renames
\* or writes the path, its content or its parent directory (ValidFile opens
\* nothing at all, also with the mode 'w'), whether the validation succeeds
\* or fails; and a construction yields a validator object only if no
\* validator raised.
C21_ConstructionOnlyInspects ==
    /\ \A i \in 1..Len(fscalls) : fscalls[i][2] \in C21_Inspecting
    /\ cls = "ValidFile" => \A i \in 1..Len(fscalls) : fscalls[i][1] \notin C21_Opens
    /\ Done => (Constructed <=> exc = "none")
    /\ Constructed => ran = CASE cls = "ValidFile" -> ValidFileChain
                              [] cls = "ValidHDF5" -> ValidHDF5Chain
                              [] cls = "ValidDeepLabCutCSV" -> ValidDeepLabCutCSVChain
                              [] cls = "ValidVIAtracksCSV" -> ValidVIAtracksCSVChain

\* ValidFile was constructed with the mode 'w' for a path that does not
\* exist, having asked for the status and the access rights only
C21_Witness ==
    /\ Constructed
    /\ cls = "ValidFile"
    /\ expected_permission = <<"w">>
    /\ kind = "absent"
    /\ fscalls = << <<"Path.is_dir", "stat">>, <<"Path.exists", "stat">>,
                    <<"os.access", "R_OK">>, <<"os.access parent", "W_OK">> >>

\* ValidHDF5 failed after opening the file twice for reading
C21_WitnessFailed ==
    /\ Raised
    /\ cls = "ValidHDF5"
    /\ fscalls = << <<"h5py.File", "r">>, <<"h5py.File", "r">> >>

(***************************************************************************)
(* examples/filter_boolean.py.  A 1D array is a sequence; element i of the *)
(* sequence is the element of index i - 1 of the array, and the indices    *)
(* the functions return are those of the array, counted from 0.            *)
(***************************************************************************)
MaxArrLen == 10      \* longest boolean array

\* arr.astype(int)
astype_int(arr) == [i \in 1..Len(arr) |-> IF arr[i] THEN 1 ELSE 0]

kernel == <<1, 1, 1>>

\* Element i of a, or cval outside of a: mode="constant"
Padded(a, i, cval) == IF i \in 1..Len(a) THEN a[i] ELSE cval

\* scipy.ndimage.convolve(a, w, mode="constant", cval=cval) for the weights
\* w of length 3: the weights are flipped and centred on each element
convolve(a, w, cval) ==
    [i \in 1..Len(a) |->
        w[3] * Padded(a, i - 1, cval) + w[2] * a[i] + w[1] * Padded(a, i + 1, cval)]

\* np.nonzero(mask)[0], for the first n elements of mask: the indices of
\* the elements that are true, in increasing order
RECURSIVE nonzero_upto(_, _)
nonzero_upto(mask, n) ==
    IF n = 0 THEN <<>>
    ELSE nonzero_upto(mask, n - 1) \o (IF mask[n] THEN <<n - 1>> ELSE <<>>)

nonzero(mask) == nonzero_upto(mask, Len(mask))

sandwitched_idxs_AnyNeighbour(arr) ==
    LET arr_int == astype_int(arr)
        convolved == convolve(arr_int, kernel, 0)
    IN  nonzero([i \in 1..Len(arr) |-> convolved[i] >= 1 /\ arr_int[i] = 0])

\* np.nonzero((convolved == 2) & (arr_int == 0))[0]
sandwitched_idxs(arr) ==
    LET arr_int == astype_int(arr)
        convolved == convolve(arr_int, kernel, 0)
    IN  nonzero([i \in 1..Len(arr) |-> convolved[i] = 2 /\ arr_int[i] = 0])

\* a[idxs] = True
SetTrue(a, idxs) == [i \in 1..Len(a) |-> a[i] \/ (i - 1) \in Range(idxs)]

filter_out_brief_interruptions_InPlace(arr) ==
    [arr |-> SetTrue(arr, sandwitched_idxs(arr)),
     new_arr |-> SetTrue(arr, sandwitched_idxs(arr))]

\* The array passed, as the call leaves it, and the array returned:
\* new_arr = arr.copy(); new_arr[sandwitched_idxs] = True
filter_out_brief_interruptions(arr) ==
    [arr |-> arr,
     new_arr |-> SetTrue(arr, sandwitched_idxs(arr))]

\* np.pad(arr, 1, mode="constant", constant_values=False)
padded_interactions(arr) == <<FALSE>> \o arr \o <<FALSE>>

\* np.diff(a)
diff(a) == [i \in 1..(Len(a) - 1) |-> a[i + 1] - a[i]]

diffs(arr) == diff(astype_int(padded_interactions(arr)))

start_positions_Shifted(arr) ==
    LET d == diffs(arr) IN nonzero([i \in 1..Len(d) |-> d[i] = 1 /\ i > 1])

\* np.nonzero(diffs == 1)[0]
start_positions(arr) ==
    LET d == diffs(arr) IN nonzero([i \in 1..Len(d) |-> d[i] = 1])

\* np.nonzero(diffs == -1)[0]
end_positions(arr) ==
    LET d == diffs(arr) IN nonzero([i \in 1..Len(d) |-> d[i] = -1])

\* np.column_stack((a, b)), for a and b of one length
column_stack(a, b) == [k \in 1..Len(a) |-> <<a[k], b[k]>>]

find_bouts(arr) == column_stack(start_positions(arr), end_positions(arr))

(***************************************************************************)
(* The functions are applied to every boolean array up to MaxArrLen: the    *)
(* filter to the array, the filter to its own output, and find_bouts to    *)
(* the array and to the filtered array.                                    *)
(***************************************************************************)
\* No validator is constructed
NoValidator ==
    /\ cls = "none"
    /\ argType = "Path"
    /\ NoFileInputs
    /\ NoH5Inputs
    /\ NoDlcInputs
    /\ NoViaInputs
    /\ NotStarted

BoolArrays == SeqsUpTo(BOOLEAN, MaxArrLen)

InitFilter ==
    /\ \E a \in BoolArrays :
           filt = [stage |-> "created", interactions |-> a, arr |-> a,
                   filtered |-> <<>>, refiltered |-> <<>>,
                   bouts |-> <<>>, filtered_bouts |-> <<>>]
    /\ plot = [stage |-> "idle"]
    /\ napari = [stage |-> "idle"]
    /\ NoValidator

\* filtered_interactions = filter_out_brief_interruptions(interactions)
FilterInteractions ==
    /\ filt.stage = "created"
    /\ LET r == filter_out_brief_interruptions(filt.arr)
       IN  filt' = [filt EXCEPT !.stage = "filtered", !.arr = r.arr, !.filtered = r.new_arr]
    /\ UNCHANGED <<validatorVars, plot, napari>>

\* The filter applied to its own output
FilterAgain ==
    /\ filt.stage = "filtered"
    /\ LET r == filter_out_brief_interruptions(filt.filtered)
       IN  filt' = [filt EXCEPT !.stage = "refiltered", !.filtered = r.arr,
                                !.refiltered = r.new_arr]
    /\ UNCHANGED <<validatorVars, plot, napari>>

\* bout_starts_ends = find_bouts(filtered_interactions), and the bouts of
\* the array before the filter
FindBouts ==
    /\ filt.stage = "refiltered"
    /\ filt' = [filt EXCEPT !.stage = "bouts",
                            !.bouts = find_bouts(filt.arr),
                            !.filtered_bouts = find_bouts(filt.filtered)]
    /\ UNCHANGED <<validatorVars, plot, napari>>

NextFilter ==
    \/ FilterInteractions
    \/ FilterAgain
    \/ FindBouts

SpecFilter == InitFilter /\ [][NextFilter]_vars

(***************************************************************************)
(* examples/filter_boolean.py: the claims.                                 *)
(***************************************************************************)
\* The array of the example and the output the example expects
interactions ==
    <<FALSE, FALSE, TRUE, TRUE, FALSE, TRUE, FALSE, FALSE, TRUE, FALSE>>

expected_output ==
    <<FALSE, FALSE, TRUE, TRUE, TRUE, TRUE, FALSE, FALSE, TRUE, FALSE>>

\* Element of index i, counted from 0, of the array a
At(a, i) == a[i + 1]

\* C22: for every boolean array arr of length n the filter returns an array
\* out of length n in which out[i] is True exactly when arr[i] is True, or
\* 0 < i < n - 1 and arr[i-1] and arr[i+1] are both True; every other
\* value, the first and the last included, is unchanged, and the array
\* passed is not modified.
C22_FilterFillsSandwichedFalses ==
    filt.stage = "filtered" =>
        LET arr == filt.interactions
            n == Len(arr)
            out == filt.filtered
        IN  /\ Len(out) = n
            /\ \A i \in 0..(n - 1) :
                   At(out, i) <=>
                       \/ At(arr, i)
                       \/ (0 < i /\ i < n - 1 /\ At(arr, i - 1) /\ At(arr, i + 1))
            /\ n > 0 => (At(out, 0) = At(arr, 0) /\ At(out, n - 1) = At(arr, n - 1))
            /\ filt.arr = arr

\* The array of the example gave the output the example expects
C22_Witness ==
    /\ filt.stage = "filtered"
    /\ filt.interactions = interactions
    /\ filt.filtered = expected_output
    /\ filt.arr = interactions

\* The maximal runs of True of the array a, as pairs (start, end) of the
\* index of the first True of the run and the index after its last True
C23_Runs(a) ==
    {<<s, e>> \in (0..Len(a)) \X (0..Len(a)) :
        /\ s < e
        /\ \A i \in s..(e - 1) : At(a, i)
        /\ s = 0 \/ ~At(a, s - 1)
        /\ e = Len(a) \/ ~At(a, e)}

\* C23: for every boolean array arr of length n, find_bouts returns one row
\* (start, end) for each maximal run of True values, with
\* 0 <= start < end <= n, arr[start..end-1] all True, arr[start-1] False or
\* start = 0, arr[end] False or end = n; the rows are in increasing order,
\* pairwise disjoint, and cover every True index; there is none for an
\* array that is all False or empty.
C23_OneRowPerMaximalRun ==
    filt.stage = "bouts" =>
        LET arr == filt.arr
            rows == filt.bouts
        IN  /\ Range(rows) = C23_Runs(arr)
            /\ Len(rows) = Cardinality(C23_Runs(arr))
            /\ \A k \in 1..(Len(rows) - 1) : rows[k][2] < rows[k + 1][1]
            /\ \A i \in 0..(Len(arr) - 1) :
                   At(arr, i) <=> \E k \in 1..Len(rows) : rows[k][1] <= i /\ i < rows[k][2]
            /\ (\A i \in 0..(Len(arr) - 1) : ~At(arr, i)) => rows = <<>>

\* The array of the example has the bouts (2, 4), (5, 6) and (8, 9)
C23_Witness ==
    /\ filt.stage = "bouts"
    /\ filt.arr = interactions
    /\ filt.bouts = << <<2, 4>>, <<5, 6>>, <<8, 9>> >>
    /\ filt.filtered_bouts = << <<2, 6>>, <<8, 9>> >>

\* An array that starts and ends with True
C23_WitnessAtTheEnds ==
    /\ filt.stage = "bouts"
    /\ filt.arr = <<TRUE, FALSE, TRUE, TRUE>>
    /\ filt.bouts = << <<0, 1>>, <<2, 4>> >>

\* C28: the filter is idempotent and monotone: applied to its own output it
\* returns that output unchanged, it never turns a True into False, and
\* find_bouts finds no more bouts in its output than in its input.
C28_FilterIdempotentAndMonotone ==
    filt.stage = "bouts" =>
        /\ filt.refiltered = filt.filtered
        /\ Len(filt.filtered) = Len(filt.arr)
        /\ \A i \in 1..Len(filt.arr) : filt.arr[i] => filt.filtered[i]
        /\ Len(filt.filtered_bouts) <= Len(filt.bouts)

\* The filter joined two of the three bouts of the example's array, and
\* changed nothing when applied again
C28_Witness ==
    /\ filt.stage = "bouts"
    /\ filt.arr = interactions
    /\ filt.filtered = expected_output
    /\ filt.refiltered = expected_output
    /\ Len(filt.bouts) = 3
    /\ Len(filt.filtered_bouts) = 2

(***************************************************************************)
(* utils/plotting.py.  An optional argument is a sequence: empty for None, *)
(* of the one value otherwise.  Time indices count from 0.                 *)
(***************************************************************************)
MaxTime == 4         \* most time points of the data
MaxTail == 5         \* largest tail_length
MaxCalls == 3        \* most successive calls with the same crop dict

None == <<>>
Some(v) == <<v>>

\* s[::-1]
Reversed(s) == [i \in 1..Len(s) |-> s[Len(s) + 1 - i]]

\* _crop_axis_lims(ax, crop): the axes and the caller's dict after the call
crop_axis_lims(ax, crop) ==
    LET ax1 == IF "x" \in DOMAIN crop THEN [ax EXCEPT !.xlim = crop["x"]] ELSE ax
    IN  IF "y" \in DOMAIN crop
        THEN LET crop1 == [crop EXCEPT !["y"] = Reversed(crop["y"])]
             IN  [ax |-> [ax1 EXCEPT !.ylim = crop1["y"]], crop |-> crop1]
        ELSE [ax |-> ax1, crop |-> crop]

\* if crop is not None: _crop_axis_lims(ax, crop)
apply_crop(ax, crop) ==
    IF crop # None
    THEN LET r == crop_axis_lims(ax, crop[1]) IN [ax |-> r.ax, crop |-> Some(r.crop)]
    ELSE [ax |-> ax, crop |-> crop]

\* tail_length = tail_length or t
tail_length_or_t(tail_length, t) ==
    IF tail_length = None \/ tail_length[1] = 0 THEN t ELSE tail_length[1]

\* slice(start, stop).indices(n): a negative bound counts from the end, and
\* both bounds are clipped to 0..n
slice_bound(b, n) ==
    IF b < 0 THEN (IF b + n < 0 THEN 0 ELSE b + n)
    ELSE IF b > n THEN n ELSE b

\* The time indices data.isel(time=slice(start, stop)) selects from n time
\* points, in order
isel_slice(start, stop, n) ==
    LET a == slice_bound(start, n)
        b == slice_bound(stop, n)
    IN  IF a < b THEN [i \in 1..(b - a) |-> a + i - 1] ELSE <<>>

\* data.isel(time=slice(t - tail_length, t)), after tail_length = tail_length or t
show_data(t, tail_length, n) ==
    isel_slice(t - tail_length_or_t(tail_length, t), t, n)

(***************************************************************************)
(* The three functions, as functions of their arguments: exc is the        *)
(* exception that ends the call ("none" if it returns), shown the time     *)
(* indices of the data handed to scatter or quiver, ax the limits of the   *)
(* axes and crop the caller's dict when the call ends.                     *)
(***************************************************************************)
\* What the data argument of plot_frame_with_keypoints can be: None, or a
\* DataArray with or without a keypoints dimension
Datas == {"None", "time_space", "time_keypoints_space"}

\* What kwargs["cmap"] can be after the defaults are applied: the name of a
\* colormap (the default, "viridis", is one) or a Colormap given by the caller
Cmaps == {"str", "Colormap"}

\* kwargs["cmap"](1.0) raises TypeError when kwargs["cmap"] is a str
cmap_call_raises(cmap) == cmap = "str"

plot_frame_with_keypoints(t, data, cmap, crop, ax) ==
    IF data # "None" /\ data # "time_keypoints_space" /\ cmap_call_raises(cmap)
    THEN [exc |-> "TypeError", shown |-> <<>>, ax |-> ax, crop |-> crop]
    ELSE LET r == apply_crop(ax, crop)
         IN  [exc |-> "none", shown |-> IF data = "None" THEN <<>> ELSE <<t>>,
              ax |-> r.ax, crop |-> r.crop]

plot_trajectory(t, n, tail_length, crop, ax) ==
    LET r == apply_crop(ax, crop)
    IN  [exc |-> "none", shown |-> show_data(t, tail_length, n),
         ax |-> r.ax, crop |-> r.crop]

\* ax.quiver(X, Y, U, V, C) with X, Y, U, V of the size of the selection and
\* C = np.arange(tail_length): what it does with a C of another size is the
\* business of the Axes that is given.  Those of matplotlib raise ValueError
\* unless C has as many elements as there are arrows, or one; others accept it.
quiver_raises(points, colours) ==
    IF colours = points \/ colours = 1 THEN {FALSE} ELSE {FALSE, TRUE}

\* radius.max().item(): the maximum of an empty selection raises ValueError
Maximum(S) == CHOOSE x \in S : \A y \in S : y <= x

\* 100 * np.ceil(max_speed / 100), for a max_speed that is a whole number
round_up_to_100(v) == 100 * ((v + 99) \div 100)

\* 2 * np.pi, in thousandths of a radian: the limits of the angle axis are
\* held in that unit, those of a crop dict are whole numbers of pixels
two_pi == 6283

\* speed is the array of the speeds, speed[i + 1] that of time index i.  The
\* result for each of the outcomes of quiver.
plot_heading_polar(t, speed, max_speed, tail_length, ax) ==
    LET window == show_data(t, tail_length, Len(speed))
        radius == {speed[window[i] + 1] : i \in 1..Len(window)}
        ax1 == [ax EXCEPT !.xlim = <<0, two_pi>>]
        given == max_speed # None /\ max_speed[1] # 0
    IN  {IF raises
         THEN [exc |-> "ValueError", shown |-> window, ax |-> ax, crop |-> None]
         ELSE IF ~given /\ radius = {}
         THEN [exc |-> "ValueError", shown |-> window, ax |-> ax1, crop |-> None]
         ELSE LET ymax == round_up_to_100(IF given THEN max_speed[1] ELSE Maximum(radius))
              IN  [exc |-> "none", shown |-> window,
                   ax |-> [ax1 EXCEPT !.ylim = <<0, ymax>>], crop |-> None] :
         raises \in quiver_raises(Len(window), tail_length_or_t(tail_length, t))}

(***************************************************************************)
(* Successive calls of the plotting functions on the same axes and with   *)
(* the same crop dict, as in the loop of an animation.  A call that raises *)
(* leaves the axes and the dict as they were when it raised.               *)
(***************************************************************************)
NoLimits == [xlim |-> <<>>, ylim |-> <<>>]

\* The crop dicts: none, the x limits, the y limits, or both
Crops ==
    {None, Some("x" :> <<0, 100>>), Some("y" :> <<0, 50>>),
     Some(("x" :> <<0, 100>>) @@ ("y" :> <<0, 50>>))}

TailLengths == {None} \cup {Some(k) : k \in 0..MaxTail}

\* The speeds of the time points, and the max_speed arguments
Speeds == {50, 150}
MaxSpeeds == {None, Some(0), Some(250)}

InitPlot ==
    /\ \E n \in 1..MaxTime, c \in Crops :
           plot = [stage |-> "created", n_time |-> n, given_crop |-> c, crop |-> c,
                   ax |-> NoLimits, calls |-> 0, function |-> "none",
                   t |-> 0, tail_length |-> None, shown |-> <<>>, exc |-> "none"]
    /\ filt = [stage |-> "idle"]
    /\ napari = [stage |-> "idle"]
    /\ NoValidator

\* One call of the function f with the time index t and the result r
Plotted(f, t, tail_length, r) ==
    /\ plot.calls < MaxCalls
    /\ plot' = [plot EXCEPT !.stage = IF r.exc = "none" THEN "plotted" ELSE "raised",
                            !.calls = @ + 1, !.function = f,
                            !.t = t, !.tail_length = tail_length, !.shown = r.shown,
                            !.exc = r.exc, !.ax = r.ax, !.crop = r.crop]
    /\ UNCHANGED <<validatorVars, filt, napari>>

\* plot_frame_with_keypoints(t, frame, data, crop=crop, ax=ax, **kwargs)
PlotFrameWithKeypoints ==
    \E t \in 0..(plot.n_time - 1), data \in Datas, cmap \in Cmaps :
        Plotted("plot_frame_with_keypoints", t, None,
                plot_frame_with_keypoints(t, data, cmap, plot.crop, plot.ax))

\* plot_trajectory(t, data, tail_length=tail_length, crop=crop, ax=ax)
PlotTrajectory ==
    \E t \in 0..(plot.n_time - 1), tail_length \in TailLengths :
        Plotted("plot_trajectory", t, tail_length,
                plot_trajectory(t, plot.n_time, tail_length, plot.crop, plot.ax))

\* plot_heading_polar(t, heading, speed, max_speed=max_speed,
\* tail_length=tail_length, ax=ax); the function takes no crop dict
PlotHeadingPolar ==
    \E t \in 0..(plot.n_time - 1), tail_length \in TailLengths,
       speed \in [1..plot.n_time -> Speeds], max_speed \in MaxSpeeds :
        \E r \in plot_heading_polar(t, speed, max_speed, tail_length, plot.ax) :
            Plotted("plot_heading_polar", t, tail_length, [r EXCEPT !.crop = plot.crop])

NextPlot ==
    \/ PlotFrameWithKeypoints
    \/ PlotTrajectory
    \/ PlotHeadingPolar

SpecPlot == InitPlot /\ [][NextPlot]_vars

(***************************************************************************)
(* utils/plotting.py: the claims.                                          *)
(***************************************************************************)
TailPlotted ==
    plot.stage = "plotted" /\ plot.function \in {"plot_trajectory", "plot_heading_polar"}

\* C24 as stated: in plot_trajectory and plot_heading_polar, tail_length = 0
\* shows only the current time point t, while tail_length = None shows all
\* the previous time points.
C24_AsStated ==
    TailPlotted =>
        /\ plot.tail_length = Some(0) => plot.shown = <<plot.t>>
        /\ plot.tail_length = None => (0..(plot.t - 1)) \subseteq Range(plot.shown)

\* What does hold: tail_length = 0 selects what tail_length = None selects,
\* the time points before t
C24_ZeroSelectsAsNone ==
    (TailPlotted /\ plot.tail_length \in {None, Some(0)}) =>
        /\ plot.shown = show_data(plot.t, None, plot.n_time)
        /\ Range(plot.shown) = 0..(plot.t - 1)

\* plot_trajectory with tail_length = 0 at t = 2 showed the time points 0, 1
C24_Witness ==
    /\ plot.stage = "plotted"
    /\ plot.function = "plot_trajectory"
    /\ plot.t = 2
    /\ plot.tail_length = Some(0)
    /\ plot.shown = <<0, 1>>

\* C26 as stated: _crop_axis_lims leaves the caller's crop dict unchanged, so
\* every one of the successive calls of plot_frame_with_keypoints or
\* plot_trajectory with the same crop dict sets the same y-limits, the
\* given (y_min, y_max) reversed.
C26_AsStated ==
    (/\ plot.stage = "plotted"
     /\ plot.function \in {"plot_frame_with_keypoints", "plot_trajectory"}
     /\ plot.given_crop # None
     /\ "y" \in DOMAIN plot.given_crop[1]) =>
        /\ plot.crop = plot.given_crop
        /\ plot.ax.ylim = Reversed(plot.given_crop[1]["y"])

\* After the second call with crop = {"y": (0, 50)} the y-limits are (0, 50),
\* not reversed
C26_Witness ==
    /\ plot.stage = "plotted"
    /\ plot.function = "plot_frame_with_keypoints"
    /\ plot.calls = 2
    /\ plot.given_crop = Some("y" :> <<0, 50>>)
    /\ plot.ax.ylim = <<0, 50>>

\* The larger of two integers
Max(a, b) == IF a >= b THEN a ELSE b

\* C27 as stated: for every time index t within the data and every
\* tail_length >= 1, plot_trajectory shows a window that is not empty,
\* starts at time point t - tail_length, or at the first time point when
\* tail_length exceeds t, and holds no time point after t.
C27_AsStated ==
    (/\ plot.stage = "plotted"
     /\ plot.function = "plot_trajectory"
     /\ plot.tail_length # None
     /\ plot.tail_length # Some(0)) =>
        /\ plot.shown # <<>>
        /\ plot.shown[1] = Max(0, plot.t - plot.tail_length[1])
        /\ \A i \in 1..Len(plot.shown) : plot.shown[i] <= plot.t

\* What does hold when tail_length is at most t: the window is the
\* tail_length time points before t
C27_WindowWhenTailFits ==
    (/\ plot.stage = "plotted"
     /\ plot.function = "plot_trajectory"
     /\ plot.tail_length # None
     /\ plot.tail_length # Some(0)
     /\ plot.tail_length[1] <= plot.t) =>
        Range(plot.shown) = (plot.t - plot.tail_length[1])..(plot.t - 1)

\* With 4 time points, t = 1 and tail_length = 3 nothing was shown
C27_Witness ==
    /\ plot.stage = "plotted"
    /\ plot.function = "plot_trajectory"
    /\ plot.n_time = 4
    /\ plot.t = 1
    /\ plot.tail_length = Some(3)
    /\ plot.shown = <<>>

(***************************************************************************)
(* napari/_reader.py: pose_tracks_to_napari_tracks.  The data set has the  *)
(* dimensions time, individuals, keypoints and space (x, y); the position  *)
(* of an individual's keypoint at a frame is kept symbolic.  Indices count *)
(* from 0.                                                                 *)
(***************************************************************************)
MaxIndividuals == 4  \* most individuals
MaxKeypoints == 4    \* most keypoints
MaxFrames == 4       \* most frames

\* ds.pose_tracks at (time f, individual i, keypoint k): the row (x, y)
pose_tracks(i, k, f) == << <<"x", i, k, f>>, <<"y", i, k, f>> >>

\* ds.stack(tracks=("individuals", "keypoints", "time")): the elements of
\* the new dimension in its order, individuals varying slowest and time
\* fastest
stack(n_individuals, n_keypoints, n_frames) ==
    [r \in 1..(n_individuals * n_keypoints * n_frames) |->
        [individual |-> (r - 1) \div (n_keypoints * n_frames),
         keypoint |-> ((r - 1) \div n_frames) % n_keypoints,
         time |-> (r - 1) % n_frames]]

\* np.tile(a, reps)
tile(a, reps) == [r \in 1..(Len(a) * reps) |-> a[((r - 1) % Len(a)) + 1]]

\* np.arange(n)
arange(n) == [i \in 1..n |-> i - 1]

track_ids_TimesIndividuals(individual_ids, keypoint_ids, n_individuals, n_keypoints) ==
    [r \in 1..Len(individual_ids) |-> individual_ids[r] * n_individuals + keypoint_ids[r]]

\* track_ids = individual_ids * n_keypoints + keypoint_ids
track_ids(individual_ids, keypoint_ids, n_individuals, n_keypoints) ==
    [r \in 1..Len(individual_ids) |-> individual_ids[r] * n_keypoints + keypoint_ids[r]]

\* The rows (track id, time, y, x) of napari_tracks
pose_tracks_to_napari_tracks(n_individuals, n_keypoints, n_frames) ==
    LET n_tracks == n_individuals * n_keypoints
        ds == stack(n_individuals, n_keypoints, n_frames)
        \* the coordinates range(n_individuals) and range(n_keypoints), stacked
        individual_ids == [r \in 1..Len(ds) |-> arange(n_individuals)[ds[r].individual + 1]]
        keypoint_ids == [r \in 1..Len(ds) |-> arange(n_keypoints)[ds[r].keypoint + 1]]
        ids == track_ids(individual_ids, keypoint_ids, n_individuals, n_keypoints)
        \* np.fliplr(ds.pose_tracks.values.T)
        yx_columns == [r \in 1..Len(ds) |->
                          Reversed(pose_tracks(ds[r].individual, ds[r].keypoint, ds[r].time))]
        time_column == tile(arange(n_frames), n_tracks)
    IN  \* np.hstack((track_ids.reshape(-1, 1), time_column.reshape(-1, 1), yx_columns))
        [r \in 1..Len(ds) |-> <<ids[r], time_column[r]>> \o yx_columns[r]]

InitNapari ==
    /\ \E i \in 0..MaxIndividuals, k \in 0..MaxKeypoints, f \in 0..MaxFrames :
           napari = [stage |-> "loaded", n_individuals |-> i, n_keypoints |-> k,
                     n_frames |-> f, napari_tracks |-> <<>>]
    /\ filt = [stage |-> "idle"]
    /\ plot = [stage |-> "idle"]
    /\ NoValidator

\* data, props = pose_tracks_to_napari_tracks(pose_tracks)
PoseTracksToNapariTracks ==
    /\ napari.stage = "loaded"
    /\ napari' = [napari EXCEPT
                    !.stage = "converted",
                    !.napari_tracks = pose_tracks_to_napari_tracks(
                        napari.n_individuals, napari.n_keypoints, napari.n_frames)]
    /\ UNCHANGED <<validatorVars, filt, plot>>

NextNapari == PoseTracksToNapariTracks

SpecNapari == InitNapari /\ [][NextNapari]_vars

\* C25: the pair of individual i and keypoint k gets the track id
\* i * n_keypoints + k, so distinct pairs get distinct ids that cover exactly
\* 0 .. n_individuals * n_keypoints - 1; the output has
\* n_individuals * n_keypoints * n_frames rows, and each track id occurs
\* exactly once with each frame index 0 .. n_frames - 1, in a row that
\* holds the position (y, x) of that individual's keypoint at that frame.
C25_TrackIdsUniquePerIndividualAndKeypoint ==
    napari.stage = "converted" =>
        LET I == napari.n_individuals
            K == napari.n_keypoints
            T == napari.n_frames
            rows == napari.napari_tracks
        IN  /\ Len(rows) = I * K * T
            /\ \A r \in 1..Len(rows) : rows[r][1] \in 0..(I * K - 1) /\ rows[r][2] \in 0..(T - 1)
            /\ T > 0 => {rows[r][1] : r \in 1..Len(rows)} = 0..(I * K - 1)
            /\ \A i \in 0..(I - 1), k \in 0..(K - 1), f \in 0..(T - 1) :
                   LET at == {r \in 1..Len(rows) : rows[r][1] = i * K + k /\ rows[r][2] = f}
                   IN  /\ Cardinality(at) = 1
                       /\ \A r \in at : rows[r] = <<i * K + k, f, <<"y", i, k, f>>, <<"x", i, k, f>> >>

\* Two individuals with three keypoints over two frames: the second
\* keypoint of the second individual has the track id 4
C25_Witness ==
    /\ napari.stage = "converted"
    /\ napari.n_individuals = 2
    /\ napari.n_keypoints = 3
    /\ napari.n_frames = 2
    /\ Len(napari.napari_tracks) = 12
    /\ napari.napari_tracks[10] = <<4, 1, <<"y", 1, 1, 1>>, <<"x", 1, 1, 1>> >>

====
